---- MODULE Spec2Model ----
(***************************************************************************)
(* Model of src/utils/rag/pdf2chunks.py: the paragraph reconstructor       *)
(* extract_paragraphs_by_page, the sentence segmenter sent_tokenize, the   *)
(* chunk builder split_text_with_page, their caller pdf_to_chunks and the  *)
(* module-level variable file_source_path.                                 *)
(*                                                                         *)
(* Every call runs in a worker (a thread of the importing process).  A     *)
(* worker's locals are the functions call, sentences_with_page, ..., each  *)
(* indexed by the worker; file_source_path is the one module global.       *)
(* In the chunk builder a text is a TLA+ string, so len() is Len and + is  *)
(* \o.  Python's 0-based index k of sentences_with_page is element k + 1   *)
(* of the sequence.  A direct call of the chunk builder under Spec takes   *)
(* sentences_with_page as it stands after lines 135-142 (the paragraphs    *)
(* expanded to stripped, non-empty sentences with their page); under       *)
(* SpecPara and in pdf_to_chunks lines 135-142 are executed.               *)
(*                                                                         *)
(* Where the code looks inside a text (paragraph reconstruction, sentence  *)
(* segmentation) the text is a sequence of one-character strings; Str      *)
(* turns such a sequence into the string the chunk builder measures.       *)
(*                                                                         *)
(* Also modelled: get_vectorstore of src/utils/rag/chroma_store.py and of  *)
(* src/utils/rag/milvus_store.py (a cache of instances behind a lock) and  *)
(* get_connection_pool of src/utils/postgresql_connection.py (a module     *)
(* global holding the connection pool).                                    *)
(***************************************************************************)
EXTENDS Integers, Sequences, FiniteSets, TLC

\* ------------------------------------------------------------------ bounds

\* Longest sentence sequence handed to a direct call of the chunk builder.
MaxSent == 4
\* Calls one thread makes one after the other (SpecSeq, SpecPool).
MaxCalls == 3
\* Calls of get_vectorstore one thread makes (SpecStore).
MaxGets == 2
\* Longest chunk list handed to batch_add_document (SpecBatch), short of
\* the one list longer than the default batch size.
MaxDocs == 5
\* Most pages of a document handed to extract_paragraphs_by_page (SpecExtract).
MaxPages == 2
\* Most paragraphs handed to a direct call of the chunk builder (SpecPara).
MaxParas == 2
\* Longest text handed to a direct call of sent_tokenize, not counting the
\* padding that takes a text over the fallback threshold (SpecTok).
MaxTextLen == 3

\* Sentence lengths, chunk_size and overlap_size values of direct calls.
SentLens == {2, 4, 6}
ChunkSizes == {1, 5, 9, 14}
OverlapSizes == {-1, 0, 3, 7, 14}

Workers == {1, 2}

\* ------------------------------------------------------- program constants

\* chunk_size and overlap_size pdf_to_chunks passes (lines 250-251).
PdfChunkSize == 800
PdfOverlapSize == 200

\* ---------------------------------------------------------------- texts

Letter == <<"A", "B", "C", "D", "E", "F">>

\* The character c repeated n times.
RECURSIVE Rep(_, _)
Rep(c, n) ==
    IF n <= 0 THEN ""
    ELSE IF n % 2 = 1 THEN c \o Rep(c, n - 1)
    ELSE LET half == Rep(c, n \div 2) IN half \o half

\* The k-th sentence (1-based) of an input, n characters long: its letter
\* repeated and a terminal period, as "AAAAA." for k = 1, n = 6.
Text(k, n) == Rep(Letter[k], n - 1) \o "."

\* A sentence sequence of n sentences with the given lengths; sentences
\* before position b are on page 0, the others on page 1.
MkSentences(n, lens, b) ==
    [k \in 1..n |-> [page |-> IF k <= b THEN 0 ELSE 1, text |-> Text(k, lens[k])]]

\* ------------------------------------------------- character-level text

\* The characters str.rstrip(), str.strip() and the pattern \s take for
\* white space, as far as the texts of the model contain them.
Whitespace == {" ", "\t", "\n"}

\* The character c repeated n times, as a character sequence.
Chars(c, n) == [k \in 1..n |-> c]

\* The string of a character sequence.
RECURSIVE Str(_)
Str(s) ==
    IF Len(s) = 0 THEN ""
    ELSE IF Len(s) = 1 THEN s[1]
    ELSE LET half == Len(s) \div 2 IN
            Str(SubSeq(s, 1, half)) \o Str(SubSeq(s, half + 1, Len(s)))

\* The n-th smallest member (1-based) of a set of integers.
NthOf(S, n) == CHOOSE x \in S : Cardinality({y \in S : y < x}) = n - 1

\* The position of the first and of the last character of s that is not
\* in cs: Len(s) + 1 and 0 when all characters are in cs.
FirstOutside(s, cs) ==
    CHOOSE k \in 1..(Len(s) + 1) :
        /\ k = Len(s) + 1 \/ s[k] \notin cs
        /\ \A n \in 1..(k - 1) : s[n] \in cs
LastOutside(s, cs) ==
    CHOOSE k \in 0..Len(s) :
        /\ k = 0 \/ s[k] \notin cs
        /\ \A n \in (k + 1)..Len(s) : s[n] \in cs

\* str.rstrip(chars) and str.strip(chars): the characters of cs removed at
\* the right end, and at both ends.
RStripOf(s, cs) == SubSeq(s, 1, LastOutside(s, cs))
StripOf(s, cs) == SubSeq(s, FirstOutside(s, cs), LastOutside(s, cs))

\* str.endswith(c) for a single character c.
EndsWith(s, c) == Len(s) > 0 /\ s[Len(s)] = c

\* sep.join(texts): the texts of a list concatenated, sep between them.
RECURSIVE JoinTexts(_, _)
JoinTexts(sep, texts) ==
    IF texts = << >> THEN << >>
    ELSE IF Len(texts) = 1 THEN texts[1]
    ELSE Head(texts) \o sep \o JoinTexts(sep, Tail(texts))

\* str.split(c): the pieces between the occurrences of c; the empty string
\* gives one empty piece.
SplitOn(s, c) ==
    LET at == {k \in 1..Len(s) : s[k] = c}
        from(j) == IF j = 1 THEN 1 ELSE NthOf(at, j - 1) + 1
        to(j) == IF j = Cardinality(at) + 1 THEN Len(s) ELSE NthOf(at, j) - 1
    IN [j \in 1..(Cardinality(at) + 1) |-> SubSeq(s, from(j), to(j))]

\* ------------------------------------------------------------ documents

\* A layout element of a page as pdfminer yields it: a text container with
\* its text, or an element that is no text container (line 77).
TextBox(t) == [is_text |-> TRUE, text |-> t]
Figure == [is_text |-> FALSE, text |-> << >>]

\* The pages of the documents handed to a direct call of
\* extract_paragraphs_by_page, each a list of layout elements: an empty
\* page, a one-line text box, a hyphenated line and its continuation, a line
\* of white space and a hyphen, a line with hyphens at both ends, two text
\* boxes that each end with a line break, text boxes of one line each with
\* a figure between and a hyphen at the end of the page, two lines in one
\* text box, and the page "Hello wor-", "ld today.", "", "Next para." of
\* section 8 of spec.md.
HelloPage ==
    <<TextBox(<<"H", "e", "l", "l", "o", " ", "w", "o", "r", "-">>),
      TextBox(<<"l", "d", " ", "t", "o", "d", "a", "y", ".">>),
      TextBox(<< >>),
      TextBox(<<"N", "e", "x", "t", " ", "p", "a", "r", "a", ".">>)>>
PageChoices ==
    { << >>,
      <<TextBox(<<"a", "\n">>)>>,
      <<TextBox(<<"b", "-", "\n", "a", "\n">>)>>,
      <<TextBox(<<" ", "-", "\n">>)>>,
      <<TextBox(<<"-", "c", "-">>), TextBox(<<"a", "\n">>)>>,
      <<TextBox(<<"a", "\n">>), TextBox(<<"e", " ", "\n">>)>>,
      <<TextBox(<<"d">>), Figure, TextBox(<<"a">>), TextBox(<<"b", "-">>)>>,
      <<TextBox(<<"a", "\n", "d", "\n">>)>>,
      <<TextBox(<<"a", "b", "\n">>), TextBox(<<"\n">>), TextBox(<<"c", " ", "d", "\n">>)>>,
      HelloPage }

\* page_numbers: None, or a collection of page indices.
None == [given |-> FALSE, pages |-> {}]
Only(S) == [given |-> TRUE, pages |-> S]

\* min_line_length values of direct calls (the default is 1).
MinLineLengths == {0, 1, 2}

\* What extract_pages yields for each document path: a two-page text PDF
\* (one sentence of 401 characters on each page: 401 + 1 + 401 exceeds 800),
\* a one-sentence PDF, and a scanned PDF whose only page is an image.
Paths == {"a.pdf", "b.pdf", "scan.pdf"}
\* A page pdfminer cannot read (the second page of bad.pdf).
Unreadable == <<[is_text |-> FALSE, text |-> << >>, error |-> "PDFSyntaxError"]>>
DocPages(path) ==
    CASE path = "a.pdf" -> <<<<TextBox(Chars("A", 400) \o <<".", "\n">>)>>,
                             <<TextBox(Chars("B", 400) \o <<".", "\n">>)>>>>
      [] path = "b.pdf" -> <<<<TextBox(<<"C", "C", ".", "\n">>)>>>>
      [] path = "bad.pdf" -> <<<<TextBox(<<"D", "D", ".", "\n">>)>>, Unreadable>>
      [] OTHER -> <<<<Figure>>>>

\* The two modules that keep a cache of vector stores, and the keys of the
\* calls: chroma_store.py builds cache_key from save_path and
\* collection_name (line 54), milvus_store.py from Config.MILVUS_URI and
\* collection_name (lines 40-41).
Stores == {"chroma_store", "milvus_store"}
MilvusUri == "milvus.db"
CacheKeys(store) ==
    IF store = "chroma_store"
    THEN {<<"db1", "docs">>, <<"db1", "faq">>, <<"db2", "docs">>}
    ELSE {<<MilvusUri, "docs">>, <<MilvusUri, "faq">>}
NoCall == [store |-> "none", key |-> << >>]
EmptyCache == [key \in {} |-> 0]

\* batch_add_document(chunks, max_batch_size=10) of both modules: the
\* default batch size, the sizes and the chunk lists of the calls (a chunk
\* is named by its place in the list), and the key of get_vectorstore()
\* called with its defaults.
DefaultBatchSize == 10
BatchSizes == {-1, 0, 1, 2, 3, DefaultBatchSize}
ChunkLists == {[k \in 1..n |-> k] : n \in (0..MaxDocs) \cup {DefaultBatchSize + 1}}
DefaultKey(store) ==
    IF store = "chroma_store" THEN <<"db1", "docs">> ELSE <<MilvusUri, "docs">>
NoBatchCall == [store |-> "none", chunks |-> << >>, max_batch_size |-> 0]

\* postgresql_connection.py line 25: _db_connection_pool = None.  A pool is
\* named by the order of its construction, 1, 2, ...
NoPool == 0

\* ---------------------------------------------------------------- state

VARIABLES
    file_source_path,    \* module global (line 13)
    pc,                  \* each worker's position in the code
    call,                \* the call a worker is executing: function and file_path
    sentences_with_page, \* lines 135-142
    chunk_size,
    overlap_size,
    total,               \* line 151
    i,                   \* line 150
    start_i,             \* line 157
    current_page,        \* line 159
    current_chunk,       \* line 161
    chunks,              \* line 149
    overlap_chars,       \* line 183
    overlap_start_idx,   \* line 184
    next_start,          \* line 195
    runs,                \* history: [start, end) sentence run of each emitted chunk
    iters,               \* history: outer-loop iterations entered by the current call
    returned,            \* history: the calls that returned, with arguments and result
    calls,               \* history: calls each worker has made
    pages,               \* what extract_pages(filename) yields (line 69)
    page_numbers,
    min_line_length,
    rest,                \* the pages the generator of line 69 has not yielded yet
    page_idx,            \* line 69 (enumerate)
    lines,               \* line 82
    line_no,             \* lines of the page the loop of line 89 has consumed
    buffer,              \* line 85
    paragraphs,          \* line 86
    page_paragraphs,     \* line 66
    buffer_src,          \* history: the lines buffer was built from
    paragraphs_src,      \* history: the lines of each element of paragraphs
    page_src,            \* history: the lines of each element of page_paragraphs
    paragraphs_with_page, \* argument of split_text_with_page
    para_no,             \* paragraphs the loop of line 136 has consumed
    sent_para,           \* history: the paragraph (0-based) of each sentence
    sent_chars,          \* history: the characters of each sentence
    tok_text,            \* argument text of a direct call of sent_tokenize
    tok_det,             \* history: what detect(text) did in that call
    tok_lang,            \* lang (lines 26, 28)
    tok_sents,           \* what sent_tokenize returns (line 42)
    vectorstore_cache,   \* _vectorstore_cache of chroma_store.py and of milvus_store.py (line 21)
    cache_lock,          \* _cache_lock of each module: the thread that holds it, 0 when free
    vs_pc,               \* each thread's position in get_vectorstore
    vs_call,             \* the module and cache_key of the call a thread is executing
    vectorstore,         \* the local vectorstore (chroma_store.py line 62)
    vs_result,           \* what the thread's last call of get_vectorstore returned
    vs_calls,            \* history: calls of get_vectorstore each thread has made
    instances,           \* history: the module and key of every instance constructed
    db_connection_pool,  \* _db_connection_pool of postgresql_connection.py (line 25)
    pool_pc,             \* each thread's position in get_connection_pool
    pool_opened,         \* history: for every pool constructed, whether open() succeeded on it
    monitored,           \* history: the pools monitor_connection_pool was started on
    pool_results,        \* history: how each call of get_connection_pool ended
    pool_calls,          \* history: calls of get_connection_pool each thread has made
    batch_pc,            \* the position of the thread in batch_add_document
    batch_call,          \* its module and arguments chunks, max_batch_size
    batch_store,         \* the local vectorstore (chroma_store.py line 105)
    batch_i,             \* the i of the range loop (line 106)
    added                \* history: the batches passed to vectorstore.add_documents

argVars == <<call, sentences_with_page, chunk_size, overlap_size>>
loopVars == <<total, i, start_i, current_page, current_chunk, chunks>>
walkVars == <<overlap_chars, overlap_start_idx, next_start>>
histVars == <<runs, iters, returned, calls>>
docVars == <<pages, page_numbers, min_line_length>>
pageVars == <<rest, page_idx, lines, line_no>>
paraVars == <<buffer, paragraphs, page_paragraphs>>
srcVars == <<buffer_src, paragraphs_src, page_src>>
extractVars == <<docVars, pageVars, paraVars, srcVars>>
expandVars == <<paragraphs_with_page, para_no, sent_para, sent_chars>>
tokVars == <<tok_text, tok_det, tok_lang, tok_sents>>
pdfVars == <<file_source_path, pc, argVars, loopVars, walkVars, histVars,
             extractVars, expandVars, tokVars>>
storeVars == <<vectorstore_cache, cache_lock, vs_pc, vs_call, vectorstore,
               vs_result, vs_calls, instances>>
poolVars == <<db_connection_pool, pool_pc, pool_opened, monitored,
              pool_results, pool_calls>>
batchVars == <<batch_pc, batch_call, batch_store, batch_i, added>>
sysVars == <<storeVars, poolVars, batchVars>>
vars == <<pdfVars, sysVars>>

\* Sentence k (0-based, as in the code) of worker w's input.
Sent(w, k) == sentences_with_page[w][k + 1]

\* ------------------------------------------------- expressions of the code

\* Line 165 without the +1 of the joining space.
GrowFitsNoSpace(cur, nxt, size) == Len(cur) + Len(nxt) <= size

\* Line 165 testing the next sentence alone, not the chunk grown so far.
GrowFitsNextOnly(cur, nxt, size) == Len(nxt) + 1 <= size

\* Line 165 with < in place of <=: a sentence that fills the chunk exactly
\* is left out.
GrowFitsBelow(cur, nxt, size) == Len(cur) + Len(nxt) + 1 < size

\* Line 165: the next sentence still fits (+1 for the joining space).
GrowFits(cur, nxt, size) == Len(cur) + Len(nxt) + 1 <= size

\* Line 167 without the separating space.
ExtendNoSpace(cur, nxt) == cur \o nxt

\* Line 167: current_chunk += ' ' + sentence.
Extend(cur, nxt) == cur \o " " \o nxt

\* Lines 171-174: Document(page_content, metadata={"page", "source"}).
Document(content, page, source) ==
    [page_content |-> content, metadata |-> [page |-> page, source |-> source]]

\* Line 159 placed after the i += 1 of line 162: the page of the sentence
\* after the first one, where there is one.
PageAfterIncrement(w, first) ==
    Sent(w, IF first + 1 < total[w] THEN first + 1 ELSE first).page

\* Line 159 reading sentences_with_page[i - 1]: the sentence before the
\* first one of the chunk, the last of the input when i = 0 (index -1).
PageBeforeFirst(w, first) ==
    Sent(w, IF first = 0 THEN total[w] - 1 ELSE first - 1).page

\* Line 159: the page of the chunk is the page of its first sentence.
FirstPage(w, first) == Sent(w, first).page

\* Line 187 with the comparison of the budget turned round.
WalkContinuesInverted(idx, start, chars, overlap) == idx >= start /\ chars > overlap

\* Line 187 with <= in place of <: the walk goes on when the count equals
\* the budget.
WalkContinuesAtBudget(idx, start, chars, overlap) == idx >= start /\ chars <= overlap

\* Line 187: the condition of the backward walk.
WalkContinues(idx, start, chars, overlap) == idx >= start /\ chars < overlap

\* Line 189 without the + 1 of the separating space.
OverlapCostNoSpace(text) == Len(text)

\* Line 189: what a sentence adds to the overlap count.
OverlapCost(text) == Len(text) + 1

\* Lines 195-200 without the guard of lines 199-200.
NextStartUnguarded(idx, start) == idx + 1

\* Lines 195-200 with next_start one sentence too far (overlap_start_idx + 2).
NextStartSkipping(idx, start) == IF idx + 1 <= start THEN start + 1 ELSE idx + 2

\* Lines 195-200: next_start with the forward-progress guard.
SafeNextStart(idx, start) == IF idx + 1 <= start THEN start + 1 ELSE idx + 1

\* -------------------------------- expressions of the paragraph reconstructor

\* Line 71 without its "not": the pages asked for are the ones skipped.
SkippedWhenListed(idx, numbers) == numbers.given /\ idx \in numbers.pages

\* Line 71: the page is not one of the pages asked for.
Skipped(idx, numbers) == numbers.given /\ idx \notin numbers.pages

\* Lines 75-82: the texts of the text containers of a page joined with a
\* line break between them, and the result split at the line breaks.
PageLines(page) ==
    LET boxes == SelectSeq(page, LAMBDA element : element.is_text)
        texts == [k \in 1..Len(boxes) |-> boxes[k].text]
    IN SplitOn(JoinTexts(<<"\n">>, texts), "\n")

\* Line 69: extract_pages raises when the generator comes to a page it
\* cannot read.
ReadFails(page) == page = Unreadable

\* Lines 238-242 inside a try whose handler goes on with the paragraphs read
\* so far.
OnExtractErrorGoOn == "check"

\* Lines 69 and 238-242: no try statement is around the page loop or around
\* the call of extract_paragraphs_by_page: the exception leaves the call.
OnExtractError == "raised"

\* Line 85 moved out of the page loop: the buffer of the page before is kept.
PageStartBufferKept(previous) == previous

\* Line 85: every page starts with an empty buffer.
PageStartBuffer(previous) == << >>

\* Line 90: text = text.rstrip().
CleanLine(line) == RStripOf(line, Whitespace)

\* Line 91 with > in place of >=.
EffectiveOverLength(line_text, min_length) == Len(line_text) > min_length

\* Line 91: the line is long enough to count.
Effective(line_text, min_length) == Len(line_text) >= min_length

\* Lines 93-98: a line that ends with a hyphen is appended with
\* text.strip('-'); any other line is appended after a space, or starts the
\* buffer when the buffer is empty.
AddLine(buf, line_text) ==
    IF EndsWith(line_text, "-")
    THEN buf \o StripOf(line_text, {"-"})
    ELSE IF buf # << >> THEN buf \o <<" ">> \o line_text ELSE line_text

\* Lines 101 and 107 inserting at the front of the list.
PrependParagraph(paras, para) == <<para>> \o paras

\* Lines 101 and 107: paragraphs.append(buffer).
AppendParagraph(paras, para) == Append(paras, para)

\* Lines 110-111: the paragraphs of the page, each tagged with page_idx,
\* appended to page_paragraphs.
TaggedWith(idx, paras) == [k \in 1..Len(paras) |-> [page |-> idx, text |-> paras[k]]]

\* ---------------------------------- expressions of the sentence segmenter

\* One character stands for each character outside ASCII: the ideographic
\* full stop, the fullwidth exclamation mark, question mark and semicolon,
\* and the left double quotation mark.
IdeographicStop == "U+3002"
FullwidthExclamation == "U+FF01"
FullwidthQuestion == "U+FF1F"
FullwidthSemicolon == "U+FF1B"
LeftDoubleQuote == "U+201C"

\* The character classes of the patterns of lines 32, 36 and 39.
CjkMarks == {IdeographicStop, FullwidthExclamation, FullwidthQuestion,
             FullwidthSemicolon, "!", "?"}
LatinMarks == {".", "!", "?"}
Upper == {"A", "B", "C", "D", "E", "F", "G", "H", "I", "J", "K", "L", "M",
          "N", "O", "P", "Q", "R", "S", "T", "U", "V", "W", "X", "Y", "Z"}
Openers == Upper \cup {"\"", "'", LeftDoubleQuote}

\* Line 38: the strict rule is retried without its lookahead only for a
\* text longer than this.
FallbackThreshold == 100

\* What detect(text) can do: raise, or return a language tag (a character
\* sequence, possibly empty).
Raises == [raised |-> TRUE, lang |-> << >>]
Tag(t) == [raised |-> FALSE, lang |-> t]
NoDetection == Tag(<< >>)
En == <<"e", "n">>
ZhCn == <<"z", "h", "-", "c", "n">>
ZhTw == <<"z", "h", "-", "t", "w">>
Ja == <<"j", "a">>
Ko == <<"k", "o">>
LangTags == {<< >>, En, ZhCn, ZhTw, Ja, Ko}
Detections == {Raises} \cup {Tag(t) : t \in LangTags}

\* Lines 25-28 without the try/except: an exception of detect goes on.
DetectLangUncaught(outcome) == outcome

\* Lines 25-28: lang is the detected tag; any exception of detect is caught
\* and lang is "en".
DetectLang(outcome) ==
    IF outcome.raised THEN Tag(En) ELSE outcome

\* str.startswith(prefix).
StartsWith(s, prefix) ==
    Len(s) >= Len(prefix) /\ SubSeq(s, 1, Len(prefix)) = prefix

\* Line 30 comparing the whole tag: lang == "zh".
UsesCjkRuleExact(lang) == lang = <<"z", "h">>

\* Line 30: lang.startswith("zh").
UsesCjkRule(lang) == StartsWith(lang, <<"z", "h">>)

\* The pieces re.split leaves when the separators (from, to) are cut out of
\* the text; a separator with to = from - 1 is a zero-width cut before from.
PiecesBetween(text, seps) ==
    LET starts == {sep.from : sep \in seps}
        sepAt(j) == CHOOSE sep \in seps : sep.from = NthOf(starts, j)
        first(j) == IF j = 1 THEN 1 ELSE sepAt(j - 1).to + 1
        last(j) == IF j = Cardinality(seps) + 1 THEN Len(text) ELSE sepAt(j).from - 1
    IN [j \in 1..(Cardinality(seps) + 1) |-> SubSeq(text, first(j), last(j))]

\* Line 32 with a lookahead in place of the lookbehind: the cut falls before
\* every terminal mark, the mark going to the piece after it.
CjkSplitBeforeMark(text) ==
    PiecesBetween(text, {[from |-> k, to |-> k - 1] :
                            k \in {n \in 2..Len(text) : text[n] \in CjkMarks}})

\* Line 32: re.split(r'(?<=[<CjkMarks>])', text): a zero-width cut after
\* every terminal mark, the mark staying with the piece before it.
CjkSplit(text) ==
    PiecesBetween(text, {[from |-> k + 1, to |-> k] :
                            k \in {n \in 1..Len(text) : text[n] \in CjkMarks}})

\* The runs of white space that directly follow a mark of LatinMarks, each
\* as long as it can be (\s+ is greedy).
RunsAfterMark(text) ==
    LET begins == {k \in 2..Len(text) :
                        text[k] \in Whitespace /\ text[k - 1] \in LatinMarks}
        runEnd(k) == CHOOSE m \in k..Len(text) :
                        /\ \A n \in k..m : text[n] \in Whitespace
                        /\ m = Len(text) \/ text[m + 1] \notin Whitespace
    IN {[from |-> k, to |-> runEnd(k)] : k \in begins}

\* Line 36 without its lookahead: every run after a mark separates.
LatinSplitAnyStart(text) == PiecesBetween(text, RunsAfterMark(text))

\* Line 36: re.split(r'(?<=[.!?])\s+(?=[A-Z"\'<LeftDoubleQuote>])', text): a
\* run after a mark separates only when an upper-case letter or an opening
\* quote follows it.
LatinSplit(text) ==
    PiecesBetween(text, {run \in RunsAfterMark(text) :
                            run.to < Len(text) /\ text[run.to + 1] \in Openers})

\* Line 39 with the mark inside the separator ([.!?]\s+ with no
\* lookbehind): the mark goes with the white space.
FallbackSplitMarkTaken(text) ==
    PiecesBetween(text, {[from |-> run.from - 1, to |-> run.to] :
                            run \in RunsAfterMark(text)})

\* Line 39: re.split(r'(?<=[.!?])\s+', text): every run after a mark
\* separates.
FallbackSplit(text) == PiecesBetween(text, RunsAfterMark(text))

\* Line 38 with >= in place of >: a text of exactly the threshold is
\* split again.
NeedsFallbackAtThreshold(pieces, text) ==
    Len(pieces) = 1 /\ Len(text) >= FallbackThreshold

\* Line 38: the strict rule left the text whole and the text is long.
NeedsFallback(pieces, text) == Len(pieces) = 1 /\ Len(text) > FallbackThreshold

\* Lines 36-39: the Latin rule with its fallback.
LatinRule(text) ==
    IF NeedsFallback(LatinSplit(text), text) THEN FallbackSplit(text)
    ELSE LatinSplit(text)

\* Line 42: [s.strip() for s in sents if s.strip()].
CleanSents(pieces) ==
    SelectSeq([j \in 1..Len(pieces) |-> StripOf(pieces[j], Whitespace)],
              LAMBDA piece : piece # << >>)

\* Lines 30-42: the segmentation of a text under a language tag.
SentsOf(text, lang) ==
    CleanSents(IF UsesCjkRule(lang) THEN CjkSplit(text) ELSE LatinRule(text))

\* Lines 141-142: the sentences that are not blank, stripped.
KeptSents(sents_of_para) ==
    SelectSeq([j \in 1..Len(sents_of_para) |-> StripOf(sents_of_para[j], Whitespace)],
              LAMBDA sent : sent # << >>)

\* Lines 137-142 appending the pieces of the split as they are: neither
\* line 42 nor lines 141-142 strip a piece or drop a blank one.
SentsOfParagraphRaw(para_text, lang) ==
    IF UsesCjkRule(lang) THEN CjkSplit(para_text) ELSE LatinRule(para_text)

\* Lines 137-142 going through sents from its end: the sentences of a
\* paragraph are appended last first.
SentsOfParagraphBackwards(para_text, lang) ==
    LET kept == KeptSents(SentsOf(para_text, lang))
    IN [j \in 1..Len(kept) |-> kept[Len(kept) + 1 - j]]

\* Lines 137-142: the sentences one paragraph adds to sentences_with_page
\* (each goes in with the page of the paragraph).
SentsOfParagraph(para_text, lang) == KeptSents(SentsOf(para_text, lang))

\* Line 243: not paragraphs_with_page.
NoParagraphs(paras) == paras = << >>

\* Line 145 dropped: the function goes on with no sentence.
NoSentencesIgnored(sentences) == FALSE

\* Line 145: not sentences_with_page.
NoSentences(sentences) == sentences = << >>

\* ---------------------------------------------------------------- Init

Init ==
    /\ file_source_path = ""
    /\ pc = [w \in Workers |-> "idle"]
    /\ call = [w \in Workers |-> [fn |-> "none", file_path |-> ""]]
    /\ sentences_with_page = [w \in Workers |-> << >>]
    /\ chunk_size = [w \in Workers |-> 0]
    /\ overlap_size = [w \in Workers |-> 0]
    /\ total = [w \in Workers |-> 0]
    /\ i = [w \in Workers |-> 0]
    /\ start_i = [w \in Workers |-> 0]
    /\ current_page = [w \in Workers |-> 0]
    /\ current_chunk = [w \in Workers |-> ""]
    /\ chunks = [w \in Workers |-> << >>]
    /\ overlap_chars = [w \in Workers |-> 0]
    /\ overlap_start_idx = [w \in Workers |-> 0]
    /\ next_start = [w \in Workers |-> 0]
    /\ runs = [w \in Workers |-> << >>]
    /\ iters = [w \in Workers |-> 0]
    /\ returned = << >>
    /\ calls = [w \in Workers |-> 0]
    /\ pages = [w \in Workers |-> << >>]
    /\ page_numbers = [w \in Workers |-> None]
    /\ min_line_length = [w \in Workers |-> 1]
    /\ rest = [w \in Workers |-> << >>]
    /\ page_idx = [w \in Workers |-> -1]
    /\ lines = [w \in Workers |-> << >>]
    /\ line_no = [w \in Workers |-> 0]
    /\ buffer = [w \in Workers |-> << >>]
    /\ paragraphs = [w \in Workers |-> << >>]
    /\ page_paragraphs = [w \in Workers |-> << >>]
    /\ buffer_src = [w \in Workers |-> << >>]
    /\ paragraphs_src = [w \in Workers |-> << >>]
    /\ page_src = [w \in Workers |-> << >>]
    /\ paragraphs_with_page = [w \in Workers |-> << >>]
    /\ para_no = [w \in Workers |-> 0]
    /\ sent_para = [w \in Workers |-> << >>]
    /\ sent_chars = [w \in Workers |-> << >>]
    /\ tok_text = [w \in Workers |-> << >>]
    /\ tok_det = [w \in Workers |-> NoDetection]
    /\ tok_lang = [w \in Workers |-> << >>]
    /\ tok_sents = [w \in Workers |-> << >>]
    /\ vectorstore_cache = [store \in Stores |-> EmptyCache]
    /\ cache_lock = [store \in Stores |-> 0]
    /\ vs_pc = [w \in Workers |-> "idle"]
    /\ vs_call = [w \in Workers |-> NoCall]
    /\ vectorstore = [w \in Workers |-> 0]
    /\ vs_result = [w \in Workers |-> 0]
    /\ vs_calls = [w \in Workers |-> 0]
    /\ instances = << >>
    /\ db_connection_pool = NoPool
    /\ pool_pc = [w \in Workers |-> "idle"]
    /\ pool_opened = << >>
    /\ monitored = {}
    /\ pool_results = << >>
    /\ pool_calls = [w \in Workers |-> 0]
    /\ batch_pc = "idle"
    /\ batch_call = NoBatchCall
    /\ batch_store = 0
    /\ batch_i = 0
    /\ added = << >>

\* ------------------------------------------------------------- the calls

\* A worker starts executing a call: fresh locals.
Begin(w, fn, path, entry) ==
    /\ pc[w] = "idle"
    /\ pc' = [pc EXCEPT ![w] = entry]
    /\ call' = [call EXCEPT ![w] = [fn |-> fn, file_path |-> path]]
    /\ total' = [total EXCEPT ![w] = 0]
    /\ i' = [i EXCEPT ![w] = 0]
    /\ start_i' = [start_i EXCEPT ![w] = 0]
    /\ current_page' = [current_page EXCEPT ![w] = 0]
    /\ current_chunk' = [current_chunk EXCEPT ![w] = ""]
    /\ chunks' = [chunks EXCEPT ![w] = << >>]
    /\ overlap_chars' = [overlap_chars EXCEPT ![w] = 0]
    /\ overlap_start_idx' = [overlap_start_idx EXCEPT ![w] = 0]
    /\ next_start' = [next_start EXCEPT ![w] = 0]
    /\ runs' = [runs EXCEPT ![w] = << >>]
    /\ iters' = [iters EXCEPT ![w] = 0]
    /\ calls' = [calls EXCEPT ![w] = @ + 1]
    /\ page_idx' = [page_idx EXCEPT ![w] = -1]
    /\ lines' = [lines EXCEPT ![w] = << >>]
    /\ line_no' = [line_no EXCEPT ![w] = 0]
    /\ buffer' = [buffer EXCEPT ![w] = << >>]
    /\ paragraphs' = [paragraphs EXCEPT ![w] = << >>]
    /\ page_paragraphs' = [page_paragraphs EXCEPT ![w] = << >>]
    /\ buffer_src' = [buffer_src EXCEPT ![w] = << >>]
    /\ paragraphs_src' = [paragraphs_src EXCEPT ![w] = << >>]
    /\ page_src' = [page_src EXCEPT ![w] = << >>]
    /\ para_no' = [para_no EXCEPT ![w] = 0]
    /\ sent_para' = [sent_para EXCEPT ![w] = << >>]
    /\ sent_chars' = [sent_chars EXCEPT ![w] = << >>]
    /\ tok_det' = [tok_det EXCEPT ![w] = NoDetection]
    /\ tok_lang' = [tok_lang EXCEPT ![w] = << >>]
    /\ tok_sents' = [tok_sents EXCEPT ![w] = << >>]
    /\ UNCHANGED sysVars
    /\ UNCHANGED <<file_source_path, returned>>

\* The arguments of the three kinds of call; a call sets the arguments of
\* the other kinds to their empty values.
SplitArgs(w, paras, sentences, size, overlap) ==
    /\ paragraphs_with_page' = [paragraphs_with_page EXCEPT ![w] = paras]
    /\ sentences_with_page' = [sentences_with_page EXCEPT ![w] = sentences]
    /\ chunk_size' = [chunk_size EXCEPT ![w] = size]
    /\ overlap_size' = [overlap_size EXCEPT ![w] = overlap]
ExtractArgs(w, doc, numbers, min_length) ==
    /\ pages' = [pages EXCEPT ![w] = doc]
    /\ rest' = [rest EXCEPT ![w] = doc]
    /\ page_numbers' = [page_numbers EXCEPT ![w] = numbers]
    /\ min_line_length' = [min_line_length EXCEPT ![w] = min_length]
TokArgs(w, t) ==
    /\ tok_text' = [tok_text EXCEPT ![w] = t]

\* split_text_with_page(paragraphs_with_page, chunk_size, overlap_size)
\* called directly (lines 116-120), taken after lines 135-142 have turned
\* the paragraphs into the sentences sents.
CallSplit(w, sents, size, overlap) ==
    /\ Begin(w, "split_text_with_page", "", "split")
    /\ SplitArgs(w, << >>, sents, size, overlap)
    /\ ExtractArgs(w, << >>, None, 1)
    /\ TokArgs(w, << >>)

\* split_text_with_page(paragraphs_with_page, chunk_size, overlap_size)
\* called directly (lines 116-120) with a list of (page, paragraph).
CallSplitParas(w, paras, size, overlap) ==
    /\ Begin(w, "split_text_with_page", "", "expand")
    /\ SplitArgs(w, paras, << >>, size, overlap)
    /\ ExtractArgs(w, << >>, None, 1)
    /\ TokArgs(w, << >>)

\* extract_paragraphs_by_page(filename, page_numbers, min_line_length)
\* called directly (lines 45-49, 66); doc is what extract_pages yields for
\* the file.
CallExtract(w, doc, numbers, min_length) ==
    /\ Begin(w, "extract_paragraphs_by_page", "", "page")
    /\ SplitArgs(w, << >>, << >>, 0, 0)
    /\ ExtractArgs(w, doc, numbers, min_length)
    /\ TokArgs(w, << >>)

\* sent_tokenize(text) called directly (line 16).
CallTok(w, t) ==
    /\ Begin(w, "sent_tokenize", "", "tok")
    /\ SplitArgs(w, << >>, << >>, 0, 0)
    /\ ExtractArgs(w, << >>, None, 1)
    /\ TokArgs(w, t)

\* pdf_to_chunks(file_path) called (lines 212-216): page_numbers and
\* min_line_length have their defaults None and 1.
CallPdf(w, path) ==
    /\ Begin(w, "pdf_to_chunks", path, "pdf")
    /\ SplitArgs(w, << >>, << >>, 0, 0)
    /\ ExtractArgs(w, << >>, None, 1)
    /\ TokArgs(w, << >>)

\* Lines 235-236: pdf_to_chunks stores its file_path in the module global.
PdfEnter(w) ==
    /\ pc[w] = "pdf"
    /\ file_source_path' = call[w].file_path
    /\ pc' = [pc EXCEPT ![w] = "extract"]
    /\ UNCHANGED sysVars
    /\ UNCHANGED <<argVars, loopVars, walkVars, histVars,
                   extractVars, expandVars, tokVars>>

\* Lines 238-242: pdf_to_chunks calls extract_paragraphs_by_page on its
\* file (lines 45-49, 66).
PdfExtract(w) ==
    /\ pc[w] = "extract"
    /\ pc' = [pc EXCEPT ![w] = "page"]
    /\ pages' = [pages EXCEPT ![w] = DocPages(call[w].file_path)]
    /\ rest' = [rest EXCEPT ![w] = DocPages(call[w].file_path)]
    /\ page_paragraphs' = [page_paragraphs EXCEPT ![w] = << >>]
    /\ page_src' = [page_src EXCEPT ![w] = << >>]
    /\ UNCHANGED sysVars
    /\ UNCHANGED <<file_source_path, argVars, loopVars, walkVars, histVars,
                   page_numbers, min_line_length, page_idx, lines, line_no,
                   buffer, paragraphs, buffer_src, paragraphs_src,
                   expandVars, tokVars>>

\* The position in the document of the page whose lines are being read.
PagePos(w) == Len(pages[w]) - Len(rest[w]) - 1

\* Lines 69-86: the page loop takes the next page with its index; a page
\* not asked for is skipped, any other page is split into lines and starts
\* with an empty buffer and no paragraphs.  No page left: line 113 returns
\* page_paragraphs, to the caller or to pdf_to_chunks (line 242).  A page
\* that cannot be read: the exception of extract_pages ends the call.
PageNext(w) ==
    /\ pc[w] = "page"
    /\ IF rest[w] = << >>
       THEN /\ pc' = [pc EXCEPT ![w] =
                    IF call[w].fn = "pdf_to_chunks" THEN "check" ELSE "return"]
            /\ UNCHANGED <<pageVars, buffer, paragraphs, buffer_src, paragraphs_src>>
       ELSE IF ReadFails(Head(rest[w]))
       THEN /\ pc' = [pc EXCEPT ![w] = OnExtractError]
            /\ UNCHANGED <<pageVars, buffer, paragraphs, buffer_src, paragraphs_src>>
       ELSE /\ page_idx' = [page_idx EXCEPT ![w] = @ + 1]
            /\ rest' = [rest EXCEPT ![w] = Tail(@)]
            /\ IF Skipped(page_idx[w] + 1, page_numbers[w])
               THEN UNCHANGED <<pc, lines, line_no, buffer, paragraphs,
                                buffer_src, paragraphs_src>>
               ELSE /\ pc' = [pc EXCEPT ![w] = "line"]
                    /\ lines' = [lines EXCEPT ![w] = PageLines(Head(rest[w]))]
                    /\ line_no' = [line_no EXCEPT ![w] = 0]
                    /\ buffer' = [buffer EXCEPT ![w] = PageStartBuffer(@)]
                    /\ buffer_src' = [buffer_src EXCEPT ![w] =
                            IF PageStartBuffer(buffer[w]) = << >> THEN << >> ELSE @]
                    /\ paragraphs' = [paragraphs EXCEPT ![w] = << >>]
                    /\ paragraphs_src' = [paragraphs_src EXCEPT ![w] = << >>]
    /\ UNCHANGED sysVars
    /\ UNCHANGED <<file_source_path, argVars, loopVars, walkVars, histVars,
                   docVars, page_paragraphs, page_src, expandVars, tokVars>>

\* Lines 89-103: one line of the page.  A line long enough after rstrip is
\* added to the buffer; a shorter one ends the paragraph in the buffer, if
\* there is one.
LineStep(w) ==
    /\ pc[w] = "line"
    /\ line_no[w] < Len(lines[w])
    /\ LET line_text == CleanLine(lines[w][line_no[w] + 1])
           here == [page |-> PagePos(w), line |-> line_no[w]]
       IN IF Effective(line_text, min_line_length[w])
          THEN /\ buffer' = [buffer EXCEPT ![w] = AddLine(@, line_text)]
               /\ buffer_src' = [buffer_src EXCEPT ![w] = Append(@, here)]
               /\ UNCHANGED <<paragraphs, paragraphs_src>>
          ELSE IF buffer[w] # << >>
          THEN /\ paragraphs' = [paragraphs EXCEPT ![w] =
                        AppendParagraph(@, buffer[w])]
               /\ paragraphs_src' = [paragraphs_src EXCEPT ![w] =
                        AppendParagraph(@, buffer_src[w])]
               /\ buffer' = [buffer EXCEPT ![w] = << >>]
               /\ buffer_src' = [buffer_src EXCEPT ![w] = << >>]
          ELSE UNCHANGED <<buffer, buffer_src, paragraphs, paragraphs_src>>
    /\ line_no' = [line_no EXCEPT ![w] = @ + 1]
    /\ UNCHANGED sysVars
    /\ UNCHANGED <<file_source_path, pc, argVars, loopVars, walkVars, histVars,
                   docVars, rest, page_idx, lines, page_paragraphs, page_src,
                   expandVars, tokVars>>

\* Lines 106-111: after the last line a non-empty buffer is appended as the
\* last paragraph of the page (the buffer keeps its text until line 85 of
\* the next page), and the paragraphs of the page go to page_paragraphs
\* with the page index.
PageEnd(w) ==
    /\ pc[w] = "line"
    /\ line_no[w] = Len(lines[w])
    /\ LET flush == buffer[w] # << >>
           paras == IF flush THEN AppendParagraph(paragraphs[w], buffer[w])
                    ELSE paragraphs[w]
           srcs == IF flush THEN AppendParagraph(paragraphs_src[w], buffer_src[w])
                   ELSE paragraphs_src[w]
       IN /\ paragraphs' = [paragraphs EXCEPT ![w] = paras]
          /\ paragraphs_src' = [paragraphs_src EXCEPT ![w] = srcs]
          /\ page_paragraphs' = [page_paragraphs EXCEPT ![w] =
                    @ \o TaggedWith(page_idx[w], paras)]
          /\ page_src' = [page_src EXCEPT ![w] = @ \o srcs]
    /\ pc' = [pc EXCEPT ![w] = "page"]
    /\ UNCHANGED sysVars
    /\ UNCHANGED <<file_source_path, argVars, loopVars, walkVars, histVars,
                   docVars, pageVars, buffer, buffer_src, expandVars, tokVars>>

\* Lines 242-252: pdf_to_chunks has the paragraphs; none returns [] (line
\* 245), otherwise split_text_with_page is called with chunk_size 800 and
\* overlap_size 200.
PdfCheck(w) ==
    /\ pc[w] = "check"
    /\ IF NoParagraphs(page_paragraphs[w])
       THEN /\ pc' = [pc EXCEPT ![w] = "return"]
            /\ UNCHANGED <<paragraphs_with_page, chunk_size, overlap_size>>
       ELSE /\ pc' = [pc EXCEPT ![w] = "expand"]
            /\ paragraphs_with_page' =
                    [paragraphs_with_page EXCEPT ![w] = page_paragraphs[w]]
            /\ chunk_size' = [chunk_size EXCEPT ![w] = PdfChunkSize]
            /\ overlap_size' = [overlap_size EXCEPT ![w] = PdfOverlapSize]
    /\ UNCHANGED sysVars
    /\ UNCHANGED <<file_source_path, call, sentences_with_page, loopVars, walkVars,
                   histVars, extractVars, para_no, sent_para, sent_chars, tokVars>>

\* Lines 135-142: one paragraph of the loop: sent_tokenize(para) (lines
\* 25-42, with whatever detect does for this text) and its sentences
\* appended with the page of the paragraph; after the last paragraph the
\* function goes on to line 145.  An exception of sent_tokenize ends the call.
ExpandStep(w) ==
    /\ pc[w] = "expand"
    /\ IF para_no[w] < Len(paragraphs_with_page[w])
       THEN \E outcome \in Detections :
              LET para == paragraphs_with_page[w][para_no[w] + 1]
                  detected == DetectLang(outcome)
                  new == SentsOfParagraph(para.text, detected.lang)
              IN IF detected.raised
                 THEN /\ pc' = [pc EXCEPT ![w] = "raised"]
                      /\ UNCHANGED <<sentences_with_page, para_no, sent_para,
                                     sent_chars>>
                 ELSE /\ sentences_with_page' = [sentences_with_page EXCEPT ![w] =
                            @ \o [j \in 1..Len(new) |->
                                    [page |-> para.page, text |-> Str(new[j])]]]
                      /\ sent_para' = [sent_para EXCEPT ![w] =
                            @ \o [j \in 1..Len(new) |-> para_no[w]]]
                      /\ sent_chars' = [sent_chars EXCEPT ![w] = @ \o new]
                      /\ para_no' = [para_no EXCEPT ![w] = @ + 1]
                      /\ UNCHANGED pc
       ELSE /\ pc' = [pc EXCEPT ![w] = "split"]
            /\ UNCHANGED <<sentences_with_page, para_no, sent_para, sent_chars>>
    /\ UNCHANGED sysVars
    /\ UNCHANGED <<file_source_path, call, chunk_size, overlap_size, loopVars,
                   walkVars, histVars, extractVars, paragraphs_with_page, tokVars>>

\* Lines 25-42: a direct call of sent_tokenize runs: detect does one of the
\* things it can do, lang is set, the text is split by the rule of lang and
\* cleaned.  An exception that is not caught ends the call.
Tokenize(w) ==
    /\ pc[w] = "tok"
    /\ \E outcome \in Detections :
          LET detected == DetectLang(outcome) IN
            /\ tok_det' = [tok_det EXCEPT ![w] = outcome]
            /\ IF detected.raised
               THEN /\ pc' = [pc EXCEPT ![w] = "raised"]
                    /\ UNCHANGED <<tok_lang, tok_sents>>
               ELSE /\ pc' = [pc EXCEPT ![w] = "return"]
                    /\ tok_lang' = [tok_lang EXCEPT ![w] = detected.lang]
                    /\ tok_sents' = [tok_sents EXCEPT ![w] =
                            SentsOf(tok_text[w], detected.lang)]
    /\ UNCHANGED sysVars
    /\ UNCHANGED <<file_source_path, argVars, loopVars, walkVars, histVars,
                   extractVars, expandVars, tok_text>>

\* Lines 144-151: no sentence returns [] (line 146); otherwise chunks = [],
\* i = 0, total = len(sentences_with_page).
SplitEnter(w) ==
    /\ pc[w] = "split"
    /\ IF NoSentences(sentences_with_page[w])
       THEN /\ pc' = [pc EXCEPT ![w] = "return"]
            /\ UNCHANGED <<total, i, chunks>>
       ELSE /\ pc' = [pc EXCEPT ![w] = "loop"]
            /\ chunks' = [chunks EXCEPT ![w] = << >>]
            /\ i' = [i EXCEPT ![w] = 0]
            /\ total' = [total EXCEPT ![w] = Len(sentences_with_page[w])]
    /\ UNCHANGED sysVars
    /\ UNCHANGED <<file_source_path, argVars, start_i, current_page, current_chunk,
                   walkVars, histVars, extractVars, expandVars, tokVars>>

\* Lines 155-162: the outer loop's test and the start of a chunk.
LoopStart(w) ==
    /\ pc[w] = "loop"
    /\ IF i[w] < total[w]
       THEN /\ start_i' = [start_i EXCEPT ![w] = i[w]]
            /\ current_page' = [current_page EXCEPT ![w] = FirstPage(w, i[w])]
            /\ current_chunk' = [current_chunk EXCEPT ![w] = Sent(w, i[w]).text]
            /\ i' = [i EXCEPT ![w] = @ + 1]
            /\ iters' = [iters EXCEPT ![w] = @ + 1]
            /\ pc' = [pc EXCEPT ![w] = "grow"]
       ELSE /\ pc' = [pc EXCEPT ![w] = "return"]
            /\ UNCHANGED <<start_i, current_page, current_chunk, i, iters>>
    /\ UNCHANGED sysVars
    /\ UNCHANGED <<file_source_path, argVars, total, chunks, walkVars,
                   runs, returned, calls, extractVars, expandVars, tokVars>>

\* Lines 165-168: one iteration of the growing loop, or its exit.
Grow(w) ==
    /\ pc[w] = "grow"
    /\ IF i[w] < total[w]
          /\ GrowFits(current_chunk[w], Sent(w, i[w]).text, chunk_size[w])
       THEN /\ current_chunk' =
                [current_chunk EXCEPT ![w] = Extend(@, Sent(w, i[w]).text)]
            /\ i' = [i EXCEPT ![w] = @ + 1]
            /\ UNCHANGED pc
       ELSE /\ pc' = [pc EXCEPT ![w] = "emit"]
            /\ UNCHANGED <<current_chunk, i>>
    /\ UNCHANGED sysVars
    /\ UNCHANGED <<file_source_path, argVars, total, start_i, current_page, chunks,
                   walkVars, histVars, extractVars, expandVars, tokVars>>

\* Lines 171-184: the Document is built (reading the global) and appended;
\* all sentences consumed ends the loop, otherwise the walk is set up.
Emit(w) ==
    /\ pc[w] = "emit"
    /\ chunks' = [chunks EXCEPT ![w] =
            Append(@, Document(current_chunk[w], current_page[w], file_source_path))]
    /\ runs' = [runs EXCEPT ![w] = Append(@, [start |-> start_i[w], end |-> i[w]])]
    /\ IF i[w] >= total[w]
       THEN /\ pc' = [pc EXCEPT ![w] = "return"]
            /\ UNCHANGED <<overlap_chars, overlap_start_idx>>
       ELSE /\ pc' = [pc EXCEPT ![w] = "walk"]
            /\ overlap_chars' = [overlap_chars EXCEPT ![w] = 0]
            /\ overlap_start_idx' = [overlap_start_idx EXCEPT ![w] = i[w] - 1]
    /\ UNCHANGED sysVars
    /\ UNCHANGED <<file_source_path, argVars, total, i, start_i, current_page,
                   current_chunk, next_start, iters, returned, calls,
                   extractVars, expandVars, tokVars>>

\* Lines 187-190: one step of the backward walk, or its exit.
Walk(w) ==
    /\ pc[w] = "walk"
    /\ IF WalkContinues(overlap_start_idx[w], start_i[w], overlap_chars[w],
                        overlap_size[w])
       THEN /\ overlap_chars' = [overlap_chars EXCEPT ![w] =
                    @ + OverlapCost(Sent(w, overlap_start_idx[w]).text)]
            /\ overlap_start_idx' = [overlap_start_idx EXCEPT ![w] = @ - 1]
            /\ UNCHANGED pc
       ELSE /\ pc' = [pc EXCEPT ![w] = "advance"]
            /\ UNCHANGED <<overlap_chars, overlap_start_idx>>
    /\ UNCHANGED sysVars
    /\ UNCHANGED <<file_source_path, argVars, loopVars, next_start, histVars,
                   extractVars, expandVars, tokVars>>

\* Lines 195-207: next_start, the forward-progress guard, the bounds check.
Advance(w) ==
    /\ pc[w] = "advance"
    /\ LET n == SafeNextStart(overlap_start_idx[w], start_i[w]) IN
        /\ next_start' = [next_start EXCEPT ![w] = n]
        /\ IF n >= total[w]
           THEN /\ pc' = [pc EXCEPT ![w] = "return"]
                /\ UNCHANGED i
           ELSE /\ pc' = [pc EXCEPT ![w] = "loop"]
                /\ i' = [i EXCEPT ![w] = n]
    /\ UNCHANGED sysVars
    /\ UNCHANGED <<file_source_path, argVars, total, start_i, current_page,
                   current_chunk, chunks, overlap_chars, overlap_start_idx, histVars,
                   extractVars, expandVars, tokVars>>

\* Lines 42, 113, 146, 209, 245, 255: the call returns its result to the caller.
Return(w) ==
    /\ pc[w] = "return"
    /\ pc' = [pc EXCEPT ![w] = "idle"]
    /\ returned' = Append(returned,
            [worker |-> w, fn |-> call[w].fn, file_path |-> call[w].file_path,
             sentences |-> sentences_with_page[w], chunk_size |-> chunk_size[w],
             overlap_size |-> overlap_size[w], chunks |-> chunks[w],
             paragraphs |-> page_paragraphs[w], sents |-> tok_sents[w]])
    /\ UNCHANGED sysVars
    /\ UNCHANGED <<file_source_path, argVars, loopVars, walkVars, runs, iters, calls,
                   extractVars, expandVars, tokVars>>

\* The steps of extract_paragraphs_by_page.
ExtractStep(w) ==
    \/ PageNext(w)
    \/ LineStep(w)
    \/ PageEnd(w)

\* The steps of pdf_to_chunks before it calls the chunk builder.
PdfStep(w) ==
    \/ PdfEnter(w)
    \/ PdfExtract(w)
    \/ ExtractStep(w)
    \/ PdfCheck(w)
    \/ ExpandStep(w)

\* The steps of split_text_with_page, and the return to the caller.
SplitStep(w) ==
    \/ SplitEnter(w)
    \/ LoopStart(w)
    \/ Grow(w)
    \/ Emit(w)
    \/ Walk(w)
    \/ Advance(w)
    \/ Return(w)

\* ------------------------------------- the vector-store caches
\* chroma_store.py lines 27-71; milvus_store.py lines 25-56 are the same
\* statements on that module's own cache and lock.  Line numbers are those
\* of chroma_store.py.

\* Line 57: cache_key not in _vectorstore_cache, read without the lock.
Missing(key, cache) == key \notin DOMAIN cache

\* Line 60 dropped: whoever gets the lock constructs.
StillMissingUnchecked(key, cache) == TRUE

\* Line 60: the same test again, under the lock.
StillMissing(key, cache) == key \notin DOMAIN cache

\* Line 67: _vectorstore_cache[cache_key] = vectorstore.
CacheWith(cache, key, instance) ==
    [k \in DOMAIN cache \cup {key} |-> IF k = key THEN instance ELSE cache[k]]

\* Line 54: a thread calls get_vectorstore of one of the modules and builds
\* cache_key from its arguments.
GetVectorstore(w, store, key) ==
    /\ vs_pc[w] \in {"idle", "raised"}
    /\ vs_calls[w] < MaxGets
    /\ vs_pc' = [vs_pc EXCEPT ![w] = "check"]
    /\ vs_call' = [vs_call EXCEPT ![w] = [store |-> store, key |-> key]]
    /\ vectorstore' = [vectorstore EXCEPT ![w] = 0]
    /\ vs_result' = [vs_result EXCEPT ![w] = 0]
    /\ vs_calls' = [vs_calls EXCEPT ![w] = @ + 1]
    /\ UNCHANGED <<vectorstore_cache, cache_lock, instances>>
    /\ UNCHANGED <<pdfVars, poolVars, batchVars>>

\* Line 57: the first test.
FirstCheck(w) ==
    /\ vs_pc[w] = "check"
    /\ vs_pc' = [vs_pc EXCEPT ![w] =
            IF Missing(vs_call[w].key, vectorstore_cache[vs_call[w].store])
            THEN "lock" ELSE "return"]
    /\ UNCHANGED <<vectorstore_cache, cache_lock, vs_call, vectorstore,
                   vs_result, vs_calls, instances>>
    /\ UNCHANGED <<pdfVars, poolVars, batchVars>>

\* Line 58: with _cache_lock: the thread waits until the lock is free and
\* takes it.
Acquire(w) ==
    /\ vs_pc[w] = "lock"
    /\ cache_lock[vs_call[w].store] = 0
    /\ cache_lock' = [cache_lock EXCEPT ![vs_call[w].store] = w]
    /\ vs_pc' = [vs_pc EXCEPT ![w] = "recheck"]
    /\ UNCHANGED <<vectorstore_cache, vs_call, vectorstore, vs_result,
                   vs_calls, instances>>
    /\ UNCHANGED <<pdfVars, poolVars, batchVars>>

\* Line 60: the second test.
SecondCheck(w) ==
    /\ vs_pc[w] = "recheck"
    /\ vs_pc' = [vs_pc EXCEPT ![w] =
            IF StillMissing(vs_call[w].key, vectorstore_cache[vs_call[w].store])
            THEN "construct" ELSE "unlock"]
    /\ UNCHANGED <<vectorstore_cache, cache_lock, vs_call, vectorstore,
                   vs_result, vs_calls, instances>>
    /\ UNCHANGED <<pdfVars, poolVars, batchVars>>

\* Lines 62-66: the constructor (with get_embedding_model()) returns a new
\* instance, or raises: the with statement then releases the lock and the
\* exception ends the call.
Construct(w) ==
    /\ vs_pc[w] = "construct"
    /\ \E constructed \in BOOLEAN :
        IF constructed
        THEN /\ instances' = Append(instances, vs_call[w])
             /\ vectorstore' = [vectorstore EXCEPT ![w] = Len(instances) + 1]
             /\ vs_pc' = [vs_pc EXCEPT ![w] = "store"]
             /\ UNCHANGED cache_lock
        ELSE /\ cache_lock' = [cache_lock EXCEPT ![vs_call[w].store] = 0]
             /\ vs_pc' = [vs_pc EXCEPT ![w] = "raised"]
             /\ UNCHANGED <<instances, vectorstore>>
    /\ UNCHANGED <<vectorstore_cache, vs_call, vs_result, vs_calls>>
    /\ UNCHANGED <<pdfVars, poolVars, batchVars>>

\* Line 67: the instance goes into the cache.
Store(w) ==
    /\ vs_pc[w] = "store"
    /\ vectorstore_cache' = [vectorstore_cache EXCEPT ![vs_call[w].store] =
            CacheWith(@, vs_call[w].key, vectorstore[w])]
    /\ vs_pc' = [vs_pc EXCEPT ![w] = "unlock"]
    /\ UNCHANGED <<cache_lock, vs_call, vectorstore, vs_result, vs_calls, instances>>
    /\ UNCHANGED <<pdfVars, poolVars, batchVars>>

\* End of the with statement of line 58: the lock is released.
Release(w) ==
    /\ vs_pc[w] = "unlock"
    /\ cache_lock' = [cache_lock EXCEPT ![vs_call[w].store] = 0]
    /\ vs_pc' = [vs_pc EXCEPT ![w] = "return"]
    /\ UNCHANGED <<vectorstore_cache, vs_call, vectorstore, vs_result,
                   vs_calls, instances>>
    /\ UNCHANGED <<pdfVars, poolVars, batchVars>>

\* Line 71: return _vectorstore_cache[cache_key], read without the lock.
ReturnVectorstore(w) ==
    /\ vs_pc[w] = "return"
    /\ vs_result' = [vs_result EXCEPT ![w] =
            vectorstore_cache[vs_call[w].store][vs_call[w].key]]
    /\ vs_pc' = [vs_pc EXCEPT ![w] = "idle"]
    /\ UNCHANGED <<vectorstore_cache, cache_lock, vs_call, vectorstore,
                   vs_calls, instances>>
    /\ UNCHANGED <<pdfVars, poolVars, batchVars>>

\* The steps of get_vectorstore.
StoreStep(w) ==
    \/ FirstCheck(w)
    \/ Acquire(w)
    \/ SecondCheck(w)
    \/ Construct(w)
    \/ Store(w)
    \/ Release(w)
    \/ ReturnVectorstore(w)

\* ------------------------------------------- the batched hand-off
\* batch_add_document of chroma_store.py (lines 94-110); that of
\* milvus_store.py (lines 67-78) is the same statements, and the loop of
\* its pdf_save_chromadb (lines 108-111) is lines 106-109 with the batch
\* size 10.  Line numbers are those of chroma_store.py.

\* Line 106: range(0, len(chunks), max_batch_size) has i in it.
InRange(idx, stop, step) == IF step > 0 THEN idx < stop ELSE idx > stop

\* Line 107 with the slice one chunk too long: chunks[i:i + max_batch_size + 1].
BatchOfOneMore(chunk_list, idx, size) ==
    SubSeq(chunk_list, idx + 1,
           IF idx + size + 1 < Len(chunk_list) THEN idx + size + 1 ELSE Len(chunk_list))

\* Line 107: batch_chunks = chunks[i:i + max_batch_size].
BatchOf(chunk_list, idx, size) ==
    SubSeq(chunk_list, idx + 1,
           IF idx + size < Len(chunk_list) THEN idx + size ELSE Len(chunk_list))

\* A thread calls batch_add_document of one of the modules, the call
\* before it (if any) over; the history starts anew with the call.
BatchAddDocument(store, chunk_list, size) ==
    /\ batch_pc \in {"idle", "done", "raised"}
    /\ batch_pc' = "get"
    /\ batch_call' = [store |-> store, chunks |-> chunk_list, max_batch_size |-> size]
    /\ batch_store' = 0
    /\ batch_i' = 0
    /\ added' = << >>
    /\ UNCHANGED <<pdfVars, storeVars, poolVars>>

\* Line 105: vectorstore = get_vectorstore() with the default arguments
\* (lines 54-71, no other thread running): the cached instance, or a new
\* one constructed and cached, or the exception of the constructor, which
\* ends the call.
BatchGetStore ==
    /\ batch_pc = "get"
    /\ LET store == batch_call.store
           key == DefaultKey(store)
           cache == vectorstore_cache[store]
       IN IF Missing(key, cache)
          THEN \E constructed \in BOOLEAN :
                IF constructed
                THEN /\ instances' = Append(instances, [store |-> store, key |-> key])
                     /\ vectorstore_cache' = [vectorstore_cache EXCEPT ![store] =
                            CacheWith(@, key, Len(instances) + 1)]
                     /\ batch_store' = Len(instances) + 1
                     /\ batch_pc' = "range"
                ELSE /\ batch_pc' = "raised"
                     /\ UNCHANGED <<instances, vectorstore_cache, batch_store>>
          ELSE /\ batch_store' = cache[key]
               /\ batch_pc' = "range"
               /\ UNCHANGED <<instances, vectorstore_cache>>
    /\ UNCHANGED <<cache_lock, vs_pc, vs_call, vectorstore, vs_result, vs_calls>>
    /\ UNCHANGED <<batch_call, batch_i, added>>
    /\ UNCHANGED <<pdfVars, poolVars>>

\* Line 106: range(0, len(chunks), max_batch_size) is built: a step of 0
\* raises ValueError; otherwise i starts at 0.
BatchRange ==
    /\ batch_pc = "range"
    /\ batch_pc' = IF batch_call.max_batch_size = 0 THEN "raised" ELSE "loop"
    /\ batch_i' = 0
    /\ UNCHANGED <<batch_call, batch_store, added>>
    /\ UNCHANGED <<pdfVars, storeVars, poolVars>>

\* Lines 106-109: one turn of the loop: the slice is passed to
\* add_documents and i moves on by max_batch_size; the range exhausted,
\* the function returns (line 110).
BatchStep ==
    /\ batch_pc = "loop"
    /\ IF InRange(batch_i, Len(batch_call.chunks), batch_call.max_batch_size)
       THEN /\ added' = Append(added, BatchOf(batch_call.chunks, batch_i,
                                              batch_call.max_batch_size))
            /\ batch_i' = batch_i + batch_call.max_batch_size
            /\ UNCHANGED batch_pc
       ELSE /\ batch_pc' = "done"
            /\ UNCHANGED <<batch_i, added>>
    /\ UNCHANGED <<batch_call, batch_store>>
    /\ UNCHANGED <<pdfVars, storeVars, poolVars>>

\* ------------------------------------------- the connection pool
\* postgresql_connection.py lines 75-119.

\* Line 95: _db_connection_pool is None.
PoolIsNone(pool) == pool = NoPool

\* A thread calls get_connection_pool.
GetConnectionPool(w) ==
    /\ pool_pc[w] = "idle"
    /\ pool_calls[w] < MaxCalls
    /\ pool_pc' = [pool_pc EXCEPT ![w] = "test"]
    /\ pool_calls' = [pool_calls EXCEPT ![w] = @ + 1]
    /\ UNCHANGED <<db_connection_pool, pool_opened, monitored, pool_results>>
    /\ UNCHANGED <<pdfVars, storeVars, batchVars>>

\* Line 95: the test of the global.
PoolTest(w) ==
    /\ pool_pc[w] = "test"
    /\ pool_pc' = [pool_pc EXCEPT ![w] =
            IF PoolIsNone(db_connection_pool) THEN "create" ELSE "return"]
    /\ UNCHANGED <<db_connection_pool, pool_opened, monitored, pool_results,
                   pool_calls>>
    /\ UNCHANGED <<pdfVars, storeVars, batchVars>>

\* Lines 97-107: ConnectionPool(...) is constructed and assigned to the
\* global, not yet opened.
PoolCreate(w) ==
    /\ pool_pc[w] = "create"
    /\ pool_opened' = Append(pool_opened, FALSE)
    /\ db_connection_pool' = Len(pool_opened) + 1
    /\ pool_pc' = [pool_pc EXCEPT ![w] = "open"]
    /\ UNCHANGED <<monitored, pool_results, pool_calls>>
    /\ UNCHANGED <<pdfVars, storeVars, batchVars>>

\* Lines 108-114: _db_connection_pool.open() succeeds, or raises and the
\* handler raises ConnectionPoolError: the call ends, the global keeps the
\* pool.
PoolOpen(w) ==
    /\ pool_pc[w] = "open"
    /\ \E opened \in BOOLEAN :
        IF opened
        THEN /\ pool_opened' = [pool_opened EXCEPT ![db_connection_pool] = TRUE]
             /\ pool_pc' = [pool_pc EXCEPT ![w] = "monitor"]
             /\ UNCHANGED pool_results
        ELSE /\ pool_results' = Append(pool_results,
                    [worker |-> w, outcome |-> "ConnectionPoolError",
                     pool |-> NoPool])
             /\ pool_pc' = [pool_pc EXCEPT ![w] = "idle"]
             /\ UNCHANGED pool_opened
    /\ UNCHANGED <<db_connection_pool, monitored, pool_calls>>
    /\ UNCHANGED <<pdfVars, storeVars, batchVars>>

\* Line 117: monitor_connection_pool(_db_connection_pool, interval=60)
\* starts the monitoring thread (lines 33-72).
PoolMonitor(w) ==
    /\ pool_pc[w] = "monitor"
    /\ monitored' = monitored \cup {db_connection_pool}
    /\ pool_pc' = [pool_pc EXCEPT ![w] = "return"]
    /\ UNCHANGED <<db_connection_pool, pool_opened, pool_results, pool_calls>>
    /\ UNCHANGED <<pdfVars, storeVars, batchVars>>

\* Line 119: return _db_connection_pool.
PoolReturn(w) ==
    /\ pool_pc[w] = "return"
    /\ pool_results' = Append(pool_results,
            [worker |-> w, outcome |-> "returned", pool |-> db_connection_pool])
    /\ pool_pc' = [pool_pc EXCEPT ![w] = "idle"]
    /\ UNCHANGED <<db_connection_pool, pool_opened, monitored, pool_calls>>
    /\ UNCHANGED <<pdfVars, storeVars, batchVars>>

\* The steps of get_connection_pool.
PoolStep(w) ==
    \/ PoolTest(w)
    \/ PoolCreate(w)
    \/ PoolOpen(w)
    \/ PoolMonitor(w)
    \/ PoolReturn(w)

\* ------------------------------------------------------- specifications

\* Spec: one direct call of the chunk builder, on any input of the bounds.
BuilderCall(w) ==
    /\ calls[w] = 0
    /\ \E n \in 0..MaxSent :
         \E lens \in [1..n -> SentLens], b \in 0..n,
            size \in ChunkSizes, overlap \in OverlapSizes :
              CallSplit(w, MkSentences(n, lens, b), size, overlap)

Next == BuilderCall(1) \/ SplitStep(1)

Spec == Init /\ [][Next]_vars

\* SpecSeq: one thread makes up to MaxCalls calls one after the other, each a
\* direct call of the chunk builder on a short input or pdf_to_chunks on one
\* of the documents.
SeqSentences == {MkSentences(n, [k \in 1..n |-> 2], n) : n \in 0..2}

SeqCall(w) ==
    /\ calls[w] < MaxCalls
    /\ \/ \E sents \in SeqSentences, size \in ChunkSizes :
            CallSplit(w, sents, size, 0)
       \/ \E path \in Paths : CallPdf(w, path)

NextSeq == SeqCall(1) \/ PdfStep(1) \/ SplitStep(1)

SpecSeq == Init /\ [][NextSeq]_vars

\* SpecPar: two workers (threads of one process) each make one call of
\* pdf_to_chunks, for different file paths; their steps interleave freely.
\* The only variable they share is file_source_path: written at line 236
\* (PdfEnter) and read at line 173 (Emit).
ParCall(w) ==
    /\ calls[w] = 0
    /\ \E path \in Paths :
        /\ \A v \in Workers \ {w} : call[v].file_path # path
        /\ CallPdf(w, path)

NextPar == \E w \in Workers : ParCall(w) \/ PdfStep(w) \/ SplitStep(w)

SpecPar == Init /\ [][NextPar]_vars

\* SpecPdf: two threads, each making one call of pdf_to_chunks, on one of
\* the documents or on the file that cannot be read to its end.
PdfPaths == Paths \cup {"bad.pdf"}

PdfCall(w) ==
    /\ calls[w] = 0
    /\ \E path \in PdfPaths : CallPdf(w, path)

NextPdf == \E w \in Workers : PdfCall(w) \/ PdfStep(w) \/ SplitStep(w)

SpecPdf == Init /\ [][NextPdf]_vars

\* SpecStore: two threads, each making up to MaxGets calls of
\* get_vectorstore, of either module and with any key of CacheKeys, in any
\* interleaving.
StoreCall(w) ==
    \E store \in Stores : \E key \in CacheKeys(store) :
        GetVectorstore(w, store, key)

NextStore == \E w \in Workers : StoreCall(w) \/ StoreStep(w)

SpecStore == Init /\ [][NextStore]_vars

\* SpecBatch: a sequence of calls of batch_add_document, of either module,
\* on any chunk list of ChunkLists with any batch size of BatchSizes.
BatchCall ==
    \E store \in Stores, chunk_list \in ChunkLists, size \in BatchSizes :
        BatchAddDocument(store, chunk_list, size)

NextBatch == BatchCall \/ BatchGetStore \/ BatchRange \/ BatchStep

SpecBatch == Init /\ [][NextBatch]_vars

\* SpecPool: a sequence of calls of get_connection_pool, each made by one
\* of the threads after the call before it has ended, up to MaxCalls calls
\* per thread.
PoolCall(w) ==
    /\ \A v \in Workers : pool_pc[v] = "idle"
    /\ GetConnectionPool(w)

NextPool == \E w \in Workers : PoolCall(w) \/ PoolStep(w)

SpecPool == Init /\ [][NextPool]_vars

\* SpecExtract: one direct call of extract_paragraphs_by_page, on any
\* document of at most MaxPages pages of PageChoices, with page_numbers None
\* or any set of indices below MaxPages + 1, and any min_line_length of
\* MinLineLengths.
RECURSIVE DocsOf(_)
DocsOf(n) ==
    IF n = 0 THEN {<< >>}
    ELSE DocsOf(n - 1) \cup
         {Append(doc, page) : doc \in {d \in DocsOf(n - 1) : Len(d) = n - 1},
                              page \in PageChoices}
PageNumberChoices == {None} \cup {Only(S) : S \in SUBSET (0..MaxPages)}

ExtractCall(w) ==
    /\ calls[w] = 0
    /\ \E doc \in DocsOf(MaxPages), numbers \in PageNumberChoices,
          min_length \in MinLineLengths :
            CallExtract(w, doc, numbers, min_length)

NextExtract == ExtractCall(1) \/ ExtractStep(1) \/ Return(1)

SpecExtract == Init /\ [][NextExtract]_vars

\* SpecTok: one direct call of sent_tokenize, on the literal text
\* "Mr. Smith arrived." or on any text of at most MaxTextLen characters of
\* TokChars, alone or after a run of lower-case letters that brings it to
\* the fallback threshold: after the shorter run a text of three characters
\* has FallbackThreshold characters, after the longer one it has more.
TokChars == {"a", "B", "1", ".", "?", " ", "\"", IdeographicStop}
AbbreviationText ==
    <<"M", "r", ".", " ", "S", "m", "i", "t", "h", " ",
      "a", "r", "r", "i", "v", "e", "d", ".">>
RECURSIVE TextsOf(_)
TextsOf(n) ==
    IF n = 0 THEN {<< >>}
    ELSE TextsOf(n - 1) \cup
         {Append(t, c) : t \in {u \in TextsOf(n - 1) : Len(u) = n - 1}, c \in TokChars}
Paddings == {Chars("a", FallbackThreshold - short) : short \in {2, 3}}
TokTexts ==
    TextsOf(MaxTextLen) \cup {AbbreviationText}
        \cup {pad \o t : pad \in Paddings, t \in TextsOf(MaxTextLen)}

TokCall(w) ==
    /\ calls[w] = 0
    /\ \E t \in TokTexts : CallTok(w, t)

NextTok == TokCall(1) \/ Tokenize(1) \/ Return(1)

SpecTok == Init /\ [][NextTok]_vars

\* SpecPara: one call that turns paragraphs into chunks: a direct call of
\* the chunk builder on at most MaxParas paragraphs of ParaChoices (an empty
\* one, white space only, one or two sentences under either rule), or
\* pdf_to_chunks on one of the documents.
ParaChoices ==
    { << >>,
      <<" ", "\n", " ">>,
      <<"a", "b", ".">>,
      <<" ", "H", "i", "!", " ", "o", "k", " ">>,
      <<"N", "o", ".", " ", "\n", "Y", "e", "s", "?">> }
RECURSIVE ParaListsOf(_)
ParaListsOf(n) ==
    IF n = 0 THEN {<< >>}
    ELSE ParaListsOf(n - 1) \cup
         {Append(paras, [page |-> page, text |-> t]) :
            paras \in {l \in ParaListsOf(n - 1) : Len(l) = n - 1},
            page \in {n - 1}, t \in ParaChoices}

ParaCall(w) ==
    /\ calls[w] = 0
    /\ \/ \E paras \in ParaListsOf(MaxParas), size \in ChunkSizes,
             overlap \in OverlapSizes :
                CallSplitParas(w, paras, size, overlap)
       \/ \E path \in Paths : CallPdf(w, path)

NextPara == ParaCall(1) \/ PdfStep(1) \/ SplitStep(1)

SpecPara == Init /\ [][NextPara]_vars



\* The call of worker w has run to its end (its locals are kept until the
\* worker's next call).
Finished(w) == pc[w] = "return" \/ (pc[w] = "idle" /\ calls[w] > 0)

\* Number of chunks worker w has emitted, and the r-th emitted run.
Emitted(w) == Len(runs[w])
Run(w, r) == runs[w][r]

\* The texts of sentences a..b-1 (0-based) joined by single spaces.
RECURSIVE JoinRun(_, _, _)
JoinRun(w, a, b) ==
    IF a >= b THEN ""
    ELSE IF a + 1 = b THEN Sent(w, a).text
    ELSE Sent(w, a).text \o " " \o JoinRun(w, a + 1, b)

\* Sentence indices inside one of the first r emitted runs.
Covered(w, r) ==
    {k \in 0..(Len(sentences_with_page[w]) - 1) :
        \E q \in 1..r : Run(w, q).start <= k /\ k < Run(w, q).end}

\* The sentence indices of run r, in order, that no earlier run contains.
FreshOf(w, r) ==
    LET run == [j \in 1..(Run(w, r).end - Run(w, r).start) |-> Run(w, r).start + j - 1]
    IN  SelectSeq(run, LAMBDA k : k \notin Covered(w, r - 1))

\* The sentences of the first r chunks in emission order, overlap dropped.
RECURSIVE Reconstructed(_, _)
Reconstructed(w, r) ==
    IF r = 0 THEN << >>
    ELSE Reconstructed(w, r - 1)
            \o [j \in 1..Len(FreshOf(w, r)) |-> Sent(w, FreshOf(w, r)[j])]

\* Sentence k alone exceeds the chunk_size of worker w's call.
Oversize(w, k) == Len(Sent(w, k).text) > chunk_size[w]

\* ------------------------------------------------------------------ claims

\* C1 (Coverage): when a call of the chunk builder has finished, every
\* sentence index lies in the run of some emitted chunk, the chunks taken in
\* emission order with the already covered sentences dropped give back the
\* input sentence sequence, and at all times a chunk starts no later than
\* the index where the chunk before it stopped.
Coverage ==
    \A w \in Workers :
        /\ \A r \in 1..(Emitted(w) - 1) : Run(w, r + 1).start <= Run(w, r).end
        /\ Finished(w) =>
            /\ Covered(w, Emitted(w)) = 0..(Len(sentences_with_page[w]) - 1)
            /\ Reconstructed(w, Emitted(w)) = sentences_with_page[w]

\* Witness of C1: a finished call on a full-length input whose chunks overlap
\* and one of which adds nothing new.
CoverageWitness ==
    /\ Finished(1)
    /\ total[1] = MaxSent
    /\ \E r \in 1..(Emitted(1) - 1) : Run(1, r + 1).start < Run(1, r).end
    /\ \E r \in 2..Emitted(1) : FreshOf(1, r) = << >>

\* The length of the input of worker w's call of the chunk builder.
InputLen(w) == Len(sentences_with_page[w])

\* A bound on the steps worker w's call can still take: the outer iterations
\* left (each at most 2 * InputLen + 4 steps), then the steps left in the
\* current iteration.
Rank(w) ==
    LET n == InputLen(w)
        cost == 2 * n + 4
        base == (n - start_i[w] - 1) * cost + 2
    IN  CASE pc[w] = "idle" -> 0
          [] pc[w] = "return" -> 1
          [] pc[w] = "loop" -> (n - i[w]) * cost + 2
          [] pc[w] = "advance" -> base + 1
          [] pc[w] = "walk" -> base + 2 + (overlap_start_idx[w] - start_i[w] + 1)
          [] pc[w] = "emit" -> base + n + 3
          [] pc[w] = "grow" -> base + n + 4 + (n - i[w])
          [] pc[w] = "split" -> n * cost + 3
          [] pc[w] = "extract" -> n * cost + 4
          [] OTHER -> n * cost + 5

\* Worker w takes a step of a call in progress.
Moves(w) ==
    /\ pc[w] # "idle"
    /\ \/ pc'[w] # pc[w]
       \/ i'[w] # i[w]
       \/ overlap_start_idx'[w] # overlap_start_idx[w]

\* C2 (Termination): a call enters the outer loop at most `total` times and
\* emits at most `total` chunks (total the number of sentences), and every
\* step of a call strictly lowers a non-negative bound on the steps left, so
\* the loop stops, also when overlap_size >= chunk_size.
Termination ==
    /\ [](\A w \in Workers :
            /\ Rank(w) >= 0
            /\ iters[w] <= Len(sentences_with_page[w])
            /\ Len(chunks[w]) <= Len(sentences_with_page[w]))
    /\ [][\A w \in Workers : Moves(w) => Rank(w)' < Rank(w)]_vars

\* Witness of C2: a call with overlap_size >= chunk_size has finished after
\* exactly `total` outer iterations on a full-length input.
TerminationWitness ==
    /\ Finished(1)
    /\ total[1] = MaxSent
    /\ iters[1] = total[1]
    /\ Len(chunks[1]) = total[1]
    /\ overlap_size[1] >= chunk_size[1]
    /\ chunk_size[1] > 1

\* C3 (Forward progress): the start indices of the emitted chunks are
\* strictly increasing in emission order.
ForwardProgress ==
    \A w \in Workers :
        \A r \in 1..(Emitted(w) - 1) : Run(w, r).start < Run(w, r + 1).start

\* Witness of C3: the walk went back past the start of a chunk, so the guard
\* set next_start, and the chunk after it has been emitted.
ForwardProgressWitness ==
    /\ pc[1] = "return"
    /\ Emitted(1) >= 2
    /\ overlap_start_idx[1] + 1 <= Run(1, Emitted(1) - 1).start
    /\ next_start[1] = Run(1, Emitted(1) - 1).start + 1
    /\ Run(1, Emitted(1)).start = next_start[1]

\* C4 (Size bound): an emitted chunk of more than one sentence is at most
\* chunk_size characters long.
SizeBound ==
    \A w \in Workers :
        \A r \in 1..Emitted(w) :
            Run(w, r).end - Run(w, r).start > 1
                => Len(chunks[w][r].page_content) <= chunk_size[w]

\* Witness of C4: a chunk of several sentences that fills chunk_size exactly
\* beside a single-sentence chunk that exceeds it.
SizeBoundWitness ==
    /\ \E r \in 1..Emitted(1) :
        /\ Run(1, r).end - Run(1, r).start > 1
        /\ Len(chunks[1][r].page_content) = chunk_size[1]
    /\ \E r \in 1..Emitted(1) :
        /\ Run(1, r).end - Run(1, r).start = 1
        /\ Len(chunks[1][r].page_content) > chunk_size[1]

\* C5 (No mid-sentence cuts): the content of every emitted chunk is the
\* texts of its non-empty run of consecutive sentences joined by one space.
NoMidSentenceCuts ==
    \A w \in Workers :
        /\ Len(chunks[w]) = Emitted(w)
        /\ \A r \in 1..Emitted(w) :
            /\ 0 <= Run(w, r).start
            /\ Run(w, r).start < Run(w, r).end
            /\ Run(w, r).end <= Len(sentences_with_page[w])
            /\ chunks[w][r].page_content = JoinRun(w, Run(w, r).start, Run(w, r).end)

\* Witness of C5: an emitted chunk of three sentences.
NoMidSentenceCutsWitness ==
    \E r \in 1..Emitted(1) : Run(1, r).end - Run(1, r).start >= 3

\* C6 (Page tagging): the page of every emitted chunk is the page of the
\* sentence at its start index.
PageTagging ==
    \A w \in Workers :
        \A r \in 1..Emitted(w) :
            chunks[w][r].metadata.page = Sent(w, Run(w, r).start).page

\* Witness of C6: an emitted chunk whose last sentence is on another page
\* than its first.
PageTaggingWitness ==
    \E r \in 1..Emitted(1) :
        /\ Run(1, r).end - Run(1, r).start >= 2
        /\ Sent(1, Run(1, r).start).page # Sent(1, Run(1, r).end - 1).page
        /\ chunks[1][r].metadata.page = 0

\* C9 (Literal sliding-window scenario): for the four page-0 sentences
\* "AAAAA.", "BBBBB.", "CCCCC.", "DDDDD." with chunk_size 14 and
\* overlap_size 7 the finished call has emitted exactly the three chunks
\* "AAAAA. BBBBB.", "BBBBB. CCCCC.", "CCCCC. DDDDD.", in this order, of
\* sentences 0-1, 1-2 and 2-3, all on page 0.
LiteralScenario ==
    \A w \in Workers :
        ( /\ Finished(w)
          /\ sentences_with_page[w] = <<[page |-> 0, text |-> "AAAAA."],
                                        [page |-> 0, text |-> "BBBBB."],
                                        [page |-> 0, text |-> "CCCCC."],
                                        [page |-> 0, text |-> "DDDDD."]>>
          /\ chunk_size[w] = 14
          /\ overlap_size[w] = 7 )
        => /\ Len(chunks[w]) = 3
           /\ chunks[w][1].page_content = "AAAAA. BBBBB."
           /\ chunks[w][2].page_content = "BBBBB. CCCCC."
           /\ chunks[w][3].page_content = "CCCCC. DDDDD."
           /\ \A r \in 1..3 : chunks[w][r].metadata.page = 0
           /\ runs[w] = <<[start |-> 0, end |-> 2], [start |-> 1, end |-> 3],
                          [start |-> 2, end |-> 4]>>

\* Witness of C9: the call of the scenario has finished.
LiteralScenarioWitness ==
    /\ Finished(1)
    /\ Len(sentences_with_page[1]) = 4
    /\ \A k \in 0..3 : Sent(1, k).page = 0 /\ Len(Sent(1, k).text) = 6
    /\ Sent(1, 0).text = "AAAAA."
    /\ chunk_size[1] = 14
    /\ overlap_size[1] = 7
    /\ Len(chunks[1]) = 3

\* C10 (Oversize sentence): a sentence longer than chunk_size is in no chunk
\* with another sentence: every emitted chunk whose run contains it is that
\* sentence alone, whole; a finished call has emitted it; and a finished call
\* on the input of only that sentence has emitted exactly one chunk, the
\* sentence.
OversizeAlone ==
    \A w \in Workers :
        /\ \A k \in 0..(Len(sentences_with_page[w]) - 1) :
            Oversize(w, k) =>
                /\ \A r \in 1..Emitted(w) :
                    (Run(w, r).start <= k /\ k < Run(w, r).end) =>
                        /\ Run(w, r) = [start |-> k, end |-> k + 1]
                        /\ chunks[w][r].page_content = Sent(w, k).text
                /\ Finished(w) =>
                    \E r \in 1..Emitted(w) : Run(w, r) = [start |-> k, end |-> k + 1]
        /\ (Finished(w) /\ Len(sentences_with_page[w]) = 1 /\ Oversize(w, 0)) =>
                /\ Len(chunks[w]) = 1
                /\ chunks[w][1].page_content = Sent(w, 0).text

\* Witness of C10: a finished call whose input has an oversize sentence
\* between two sentences that fit, and a chunk of two sentences before it.
OversizeAloneWitness ==
    /\ Finished(1)
    /\ total[1] >= 3
    /\ \E k \in 1..(total[1] - 2) :
        /\ Oversize(1, k)
        /\ ~Oversize(1, k - 1)
        /\ ~Oversize(1, k + 1)
    /\ \E r \in 1..Emitted(1) : Run(1, r).end - Run(1, r).start = 2

\* C7 (Parallel runs are independent): every chunk a pdf_to_chunks call has
\* returned carries as source the file_path of that call, so source is the
\* same for all chunks of one run, under every interleaving of two workers.
ParallelRunsIndependent ==
    \A r \in 1..Len(returned) :
        returned[r].fn = "pdf_to_chunks" =>
            \A c \in 1..Len(returned[r].chunks) :
                /\ returned[r].chunks[c].metadata.source = returned[r].file_path
                /\ returned[r].chunks[c].metadata.source
                        = returned[r].chunks[1].metadata.source

\* C8 (Determinism): two returned direct calls of the chunk builder with the
\* same sentence sequence, chunk_size and overlap_size have returned the same
\* chunk sequence (content, page and source of every chunk), whatever calls
\* were made before or between them.
Determinism ==
    \A a, b \in 1..Len(returned) :
        ( /\ returned[a].fn = "split_text_with_page"
          /\ returned[b].fn = "split_text_with_page"
          /\ returned[a].sentences = returned[b].sentences
          /\ returned[a].chunk_size = returned[b].chunk_size
          /\ returned[a].overlap_size = returned[b].overlap_size )
        => returned[a].chunks = returned[b].chunks

\* ---------------------------------- claims on the paragraph reconstructor

\* Worker w's call is a call of extract_paragraphs_by_page, and it has run
\* to its end.
Extracting(w) == call[w].fn = "extract_paragraphs_by_page"
Extracted(w) == Extracting(w) /\ Finished(w)

\* The texts of the paragraphs worker w's call has collected, as strings.
ParagraphTexts(w) ==
    [k \in 1..Len(page_paragraphs[w]) |-> Str(page_paragraphs[w][k].text)]

\* The line (after line 90) a history entry points to, and the buffer lines
\* 93-98 build from the lines of a list of history entries.
SrcLine(w, src) == CleanLine(PageLines(pages[w][src.page + 1])[src.line + 1])
RECURSIVE Rebuilt(_, _)
Rebuilt(w, srcs) ==
    IF srcs = << >> THEN << >>
    ELSE AddLine(Rebuilt(w, SubSeq(srcs, 1, Len(srcs) - 1)),
                 SrcLine(w, srcs[Len(srcs)]))

\* The line the loop of line 89 is about to process.
AtLine(w) == pc[w] = "line" /\ line_no[w] < Len(lines[w])
ThisLine(w) == CleanLine(lines[w][line_no[w] + 1])

\* C12 (Literal paragraph scenario): one page with the lines "Hello wor-",
\* "ld today.", "", "Next para." and min_line_length = 1 gives exactly the
\* two paragraphs "Hello world today." and "Next para.", in that order.
LiteralParagraphs ==
    \A w \in Workers :
        (/\ Extracted(w)
         /\ pages[w] = <<HelloPage>>
         /\ min_line_length[w] = 1
         /\ ~Skipped(0, page_numbers[w]))
        => ParagraphTexts(w) = <<"Hello world today.", "Next para.">>

\* C13 (Hyphen rule): when an effective line ends in a hyphen, the buffer
\* becomes the buffer followed directly by the line without its trailing
\* hyphen(s); leading hyphens and all other characters of the line are kept.
HyphenRule ==
    [][\A w \in Workers :
        (/\ AtLine(w)
         /\ line_no'[w] = line_no[w] + 1
         /\ Effective(ThisLine(w), min_line_length[w])
         /\ EndsWith(ThisLine(w), "-"))
        => buffer'[w] = buffer[w] \o RStripOf(ThisLine(w), {"-"})]_vars

\* C14 (Paragraph text is never blank): every paragraph the reconstructor
\* has collected is non-empty after trimming white space.
ParagraphsNeverBlank ==
    \A w \in Workers :
        \A k \in 1..Len(page_paragraphs[w]) :
            StripOf(page_paragraphs[w][k].text, Whitespace) # << >>

\* The last line (0-based) of the page at position p of worker w's
\* document, and whether the page has a line that puts text in the buffer.
LastLineOf(w, p) == Len(PageLines(pages[w][p + 1])) - 1
HasText(w, p) ==
    \E n \in 0..LastLineOf(w, p) :
        LET line_text == SrcLine(w, [page |-> p, line |-> n]) IN
            /\ Effective(line_text, min_line_length[w])
            /\ AddLine(<< >>, line_text) # << >>

\* The page index p is one the caller asked for.
Wanted(w, p) == ~page_numbers[w].given \/ p \in page_numbers[w].pages

\* C16 (Paragraphs never span pages): the buffer is empty when the first
\* line of a page is read; outside the line loop a non-empty buffer is the
\* text of the last paragraph collected (the end of the page flushed it);
\* and every paragraph is exactly what lines 93-98 build from lines that all
\* lie on the page the paragraph is tagged with.
NoPageSpanning ==
    \A w \in Workers :
        /\ (pc[w] = "line" /\ line_no[w] = 0) => buffer[w] = << >>
        /\ (pc[w] # "line" /\ buffer[w] # << >>)
            => /\ page_paragraphs[w] # << >>
               /\ page_paragraphs[w][Len(page_paragraphs[w])].text = buffer[w]
        /\ \A k \in 1..Len(page_paragraphs[w]) :
            /\ page_src[w][k] # << >>
            /\ \A j \in 1..Len(page_src[w][k]) :
                    page_src[w][k][j].page = page_paragraphs[w][k].page
            /\ page_paragraphs[w][k].text = Rebuilt(w, page_src[w][k])

\* Witness of C16: a finished call returned a paragraph that the end of its
\* page flushed (its last line is the last line of the page), followed by
\* a paragraph of a later page that starts on the first line of that page.
NoPageSpanningWitness ==
    /\ Extracted(1)
    /\ \E k \in 1..(Len(page_paragraphs[1]) - 1) :
        LET src == page_src[1][k] IN
            /\ page_paragraphs[1][k].page < page_paragraphs[1][k + 1].page
            /\ src[Len(src)].line = LastLineOf(1, src[Len(src)].page)
            /\ page_src[1][k + 1][1].line = 0

\* C17 (Paragraph order): along page_paragraphs the page indices never
\* decrease, paragraphs of one page follow the order of their lines, and
\* the lines inside a paragraph are in the order of the page.
ParagraphOrder ==
    \A w \in Workers :
        /\ \A k \in 1..(Len(page_paragraphs[w]) - 1) :
            /\ page_paragraphs[w][k].page <= page_paragraphs[w][k + 1].page
            /\ page_paragraphs[w][k].page = page_paragraphs[w][k + 1].page
                => page_src[w][k][Len(page_src[w][k])].line
                        < page_src[w][k + 1][1].line
        /\ \A k \in 1..Len(page_paragraphs[w]) :
            \A j \in 1..(Len(page_src[w][k]) - 1) :
                page_src[w][k][j].line < page_src[w][k][j + 1].line

\* Witness of C17: a finished call returned two paragraphs of one page and
\* then a paragraph of a later page.
ParagraphOrderWitness ==
    /\ Extracted(1)
    /\ Len(page_paragraphs[1]) >= 3
    /\ page_paragraphs[1][1].page = page_paragraphs[1][2].page
    /\ page_paragraphs[1][2].page < page_paragraphs[1][3].page

\* C18 (Page allowlist): every paragraph is tagged with a page index the
\* caller asked for (any index when page_numbers is None), the tag is the
\* position in the whole document of the page its lines come from, and when
\* the call has ended every page asked for that has text has a paragraph.
PageAllowlist ==
    \A w \in Workers :
        /\ \A k \in 1..Len(page_paragraphs[w]) :
            /\ Wanted(w, page_paragraphs[w][k].page)
            /\ \A j \in 1..Len(page_src[w][k]) :
                    page_src[w][k][j].page = page_paragraphs[w][k].page
        /\ Extracted(w) =>
            \A p \in 0..(Len(pages[w]) - 1) :
                (Wanted(w, p) /\ HasText(w, p))
                    => \E k \in 1..Len(page_paragraphs[w]) :
                            page_paragraphs[w][k].page = p

\* Witness of C18: a finished call on two pages that both have text, with
\* page_numbers = [1], returned paragraphs, the first tagged with page 1.
PageAllowlistWitness ==
    /\ Extracted(1)
    /\ page_numbers[1] = Only({1})
    /\ Len(pages[1]) = 2
    /\ HasText(1, 0)
    /\ HasText(1, 1)
    /\ page_paragraphs[1] # << >>
    /\ page_paragraphs[1][1].page = 1

\* The right-trimmed line k (1-based) of the page at position p, whether it
\* counts, and whether some line of the page that counts ends in a hyphen.
TrimmedLine(w, p, k) == SrcLine(w, [page |-> p, line |-> k - 1])
Counts(w, p, k) == Len(TrimmedLine(w, p, k)) >= min_line_length[w]
HasHyphenLine(w, p) ==
    \E k \in 1..(LastLineOf(w, p) + 1) :
        /\ Counts(w, p, k)
        /\ TrimmedLine(w, p, k)[Len(TrimmedLine(w, p, k))] = "-"

\* The reference: the maximal runs of consecutive lines that count, in the
\* order of the page, each run joined by single spaces.
MaximalRuns(w, p) ==
    LET n == LastLineOf(w, p) + 1 IN
    {run \in (1..n) \X (1..n) :
        /\ run[1] <= run[2]
        /\ \A k \in run[1]..run[2] : Counts(w, p, k)
        /\ run[1] = 1 \/ ~Counts(w, p, run[1] - 1)
        /\ run[2] = n \/ ~Counts(w, p, run[2] + 1)}
RefParagraphs(w, p) ==
    LET maximal == MaximalRuns(w, p)
        firsts == {run[1] : run \in maximal}
        runAt(j) == CHOOSE run \in maximal : run[1] = NthOf(firsts, j)
    IN [j \in 1..Cardinality(maximal) |->
            JoinTexts(<<" ">>, [k \in 1..(runAt(j)[2] - runAt(j)[1] + 1) |->
                                    TrimmedLine(w, p, runAt(j)[1] + k - 1)])]

\* The texts of the paragraphs worker w's call tagged with page p.
ParagraphsOfPage(w, p) ==
    LET tagged == SelectSeq(page_paragraphs[w], LAMBDA para : para.page = p)
    IN [k \in 1..Len(tagged) |-> tagged[k].text]

\* C29 (Paragraph reconstruction against a reference): with
\* min_line_length >= 1, the paragraphs a finished call returns for a page
\* it was asked for, none of whose counting lines ends in a hyphen, are the
\* maximal runs of consecutive counting lines, each joined by single
\* spaces; none is empty, and a page with no counting line has none.
ReferenceParagraphs ==
    \A w \in Workers :
        (Extracted(w) /\ min_line_length[w] >= 1) =>
            \A p \in 0..(Len(pages[w]) - 1) :
                (Wanted(w, p) /\ ~HasHyphenLine(w, p)) =>
                    /\ ParagraphsOfPage(w, p) = RefParagraphs(w, p)
                    /\ \A k \in 1..Len(ParagraphsOfPage(w, p)) :
                            ParagraphsOfPage(w, p)[k] # << >>
                    /\ (\A k \in 1..(LastLineOf(w, p) + 1) : ~Counts(w, p, k))
                            => ParagraphsOfPage(w, p) = << >>

\* Witness of C29: with min_line_length = 2 a finished call returned the
\* two paragraphs of a page whose lines are "ab", three empty lines, "c d"
\* and an empty line.
ReferenceParagraphsWitness ==
    /\ Extracted(1)
    /\ min_line_length[1] = 2
    /\ Len(pages[1]) >= 1
    /\ LastLineOf(1, 0) = 5
    /\ ~HasHyphenLine(1, 0)
    /\ ParagraphsOfPage(1, 0) = <<(<<"a", "b">>), <<"c", " ", "d">>>>

\* ------------------------------------- claims on the sentence segmenter

\* Worker w's call is a direct call of sent_tokenize that has returned.
Tokenized(w) == call[w].fn = "sent_tokenize" /\ Finished(w)

\* What each rule gives for the text of worker w's call, cleaned (line 42).
ByLatinRule(w) == CleanSents(LatinRule(tok_text[w]))
ByCjkRule(w) == CleanSents(CjkSplit(tok_text[w]))

\* C19 (Detection failure is recovered locally): no call ends with an
\* exception, and a call in which detect raised or returned an empty tag
\* returns what the Latin rule with its fallback gives for the text.
DetectionRecovered ==
    \A w \in Workers :
        /\ pc[w] # "raised"
        /\ (Tokenized(w) /\ (tok_det[w].raised \/ tok_det[w].lang = << >>))
            => tok_sents[w] = ByLatinRule(w)

\* Witness of C19: detect raised on a text over the threshold that the
\* strict rule leaves whole, and the call returned the two sentences of the
\* fallback.
DetectionRecoveredWitness ==
    /\ Tokenized(1)
    /\ tok_det[1].raised
    /\ NeedsFallback(LatinSplit(tok_text[1]), tok_text[1])
    /\ Len(tok_sents[1]) = 2

\* C20 as stated (Strategy selection): a text detected as a CJK variant
\* (zh-cn, zh-tw, ja, ko) is cut by the punctuation rule, a text with any
\* other detected tag by the Latin rule.
StrategySelection ==
    \A w \in Workers :
        (Tokenized(w) /\ ~tok_det[w].raised)
        => tok_sents[w] = IF tok_det[w].lang \in {ZhCn, ZhTw, Ja, Ko}
                          THEN ByCjkRule(w) ELSE ByLatinRule(w)

\* C20 amended: a text whose detected tag starts with "zh" (zh-cn, zh-tw)
\* is cut by the punctuation rule; a text with any other detected tag,
\* Japanese ja and Korean ko included, is cut by the Latin rule; one rule
\* is applied to the whole text.
StrategyByZhPrefix ==
    \A w \in Workers :
        (Tokenized(w) /\ ~tok_det[w].raised)
        => /\ tok_lang[w] = tok_det[w].lang
           /\ tok_sents[w] = IF tok_det[w].lang \in {ZhCn, ZhTw}
                             THEN ByCjkRule(w) ELSE ByLatinRule(w)

\* Witness of C20 amended: a text detected as Japanese with an ideographic
\* full stop inside came back whole, where the punctuation rule cuts it.
StrategyByZhPrefixWitness ==
    /\ Tokenized(1)
    /\ tok_det[1] = Tag(Ja)
    /\ tok_sents[1] = <<tok_text[1]>>
    /\ Len(ByCjkRule(1)) = 2

\* The text without its white space, and a list of sentences run together
\* without theirs.
NoSpace(text) == SelectSeq(text, LAMBDA c : c \notin Whitespace)
RECURSIVE Flat(_)
Flat(sents) == IF sents = << >> THEN << >> ELSE Head(sents) \o Flat(Tail(sents))

\* Worker w's call of sent_tokenize returned under a tag that starts with
\* "zh" (IsZh) or under another tag (IsLatin).
IsZh(w) ==
    /\ Tokenized(w)
    /\ Len(tok_lang[w]) >= 2
    /\ tok_lang[w][1] = "z"
    /\ tok_lang[w][2] = "h"
IsLatin(w) == Tokenized(w) /\ ~IsZh(w)

\* The terminal marks of the punctuation rule and of the Latin rule, as the
\* claims name them.
TerminalMarks ==
    {IdeographicStop, FullwidthExclamation, FullwidthQuestion,
     FullwidthSemicolon, "!", "?"}
LatinTerminals == {".", "!", "?"}

\* C21 (CJK rule): under the punctuation rule the sentences, run together,
\* are the text (white space apart); no sentence has a terminal mark
\* anywhere but as its last character; every sentence but the last ends
\* with one; so there is one sentence per mark, and at most one more.
CjkRule ==
    \A w \in Workers :
        IsZh(w) =>
            LET sents == tok_sents[w]
                marks == Len(SelectSeq(tok_text[w], LAMBDA c : c \in TerminalMarks))
            IN /\ NoSpace(Flat(sents)) = NoSpace(tok_text[w])
               /\ \A j \in 1..Len(sents) :
                    /\ sents[j] # << >>
                    /\ \A k \in 1..(Len(sents[j]) - 1) :
                            sents[j][k] \notin TerminalMarks
                    /\ j < Len(sents) =>
                            sents[j][Len(sents[j])] \in TerminalMarks
               /\ Len(sents) \in {marks, marks + 1}

\* Witness of C21: a text with two terminal marks and a letter after them
\* came back as three sentences, the last one without a mark.
CjkRuleWitness ==
    /\ IsZh(1)
    /\ tok_text[1] = <<"?", IdeographicStop, "a">>
    /\ tok_sents[1] = <<(<<"?">>), <<IdeographicStop>>, <<"a">>>>

\* The positions of a text where the strict Latin rule places a boundary:
\* a mark of . ! ? followed by one or more white-space characters and then
\* an upper-case letter or an opening quote.
Boundaries(text) ==
    {k \in 1..Len(text) :
        /\ text[k] \in LatinTerminals
        /\ \E m \in (k + 2)..Len(text) :
              /\ \A n \in (k + 1)..(m - 1) : text[n] \in Whitespace
              /\ text[m] \in Upper \cup {"\"", "'", LeftDoubleQuote}}

\* The fallback is not taken for a text: it is no longer than the
\* threshold, or the strict rule has a boundary in it.
FallbackNotTaken(text) ==
    Len(text) <= FallbackThreshold \/ Boundaries(text) # {}

\* C22 (Latin strict rule): when the fallback is not taken, the sentences
\* run together are the text (white space apart), there is one more
\* sentence than the text has boundaries (none for a blank text), and no
\* sentence has a boundary left inside: the cuts are at the boundaries and
\* nowhere else.
LatinStrictRule ==
    \A w \in Workers :
        (IsLatin(w) /\ FallbackNotTaken(tok_text[w])) =>
            LET sents == tok_sents[w]
                text == tok_text[w]
            IN /\ NoSpace(Flat(sents)) = NoSpace(text)
               /\ Len(sents) = IF NoSpace(text) = << >> THEN 0
                                ELSE Cardinality(Boundaries(text)) + 1
               /\ \A j \in 1..Len(sents) : Boundaries(sents[j]) = {}
               /\ \A j \in 1..(Len(sents) - 1) :
                    sents[j][Len(sents[j])] \in LatinTerminals

\* Witness of C22: a question mark, a space and an opening quote came back
\* as two sentences, the space consumed.
LatinStrictRuleWitness ==
    /\ IsLatin(1)
    /\ tok_text[1] = <<"?", " ", "\"">>
    /\ tok_sents[1] = <<(<<"?">>), <<"\"">>>>

\* C23 as stated (Abbreviations): under the Latin rule the text
\* "Mr. Smith arrived." is not split after the abbreviation: it comes back
\* as one sentence.
AbbreviationKept ==
    \A w \in Workers :
        (IsLatin(w) /\ tok_text[w] = AbbreviationText)
        => tok_sents[w] = <<AbbreviationText>>

\* C24 (Length-gated fallback): under the Latin rule the looser split is
\* what returns exactly when the strict rule leaves the text whole and the
\* text has more than FallbackThreshold characters; otherwise the strict
\* split returns; under the punctuation rule the result is that of the
\* punctuation rule whatever the length.
LengthGatedFallback ==
    \A w \in Workers :
        LET text == tok_text[w]
            whole == Boundaries(text) = {}
        IN /\ (IsLatin(w) /\ whole /\ Len(text) > FallbackThreshold)
                => tok_sents[w] = CleanSents(FallbackSplit(text))
           /\ (IsLatin(w) /\ (~whole \/ Len(text) <= FallbackThreshold))
                => tok_sents[w] = CleanSents(LatinSplit(text))
           /\ IsZh(w) => tok_sents[w] = CleanSents(CjkSplit(text))

\* Witness of C24: a text of exactly FallbackThreshold characters that ends
\* with a full stop, a space and a lower-case letter came back whole.
LengthGatedFallbackWitness ==
    /\ IsLatin(1)
    /\ Len(tok_text[1]) = FallbackThreshold
    /\ SubSeq(tok_text[1], FallbackThreshold - 2, FallbackThreshold) = <<".", " ", "a">>
    /\ tok_sents[1] = <<tok_text[1]>>

\* --------------------------------------- claims on paragraphs to chunks

\* Worker w's call is one that builds chunks, and the places of the code
\* inside the chunk loop (lines 155-207).
Chunking(w) == call[w].fn \in {"split_text_with_page", "pdf_to_chunks"}
InChunkLoop(w) == pc[w] \in {"loop", "grow", "emit", "walk", "advance"}

\* The sentences of the r-th emitted chunk, as characters, joined by single
\* spaces.
RunChars(w, r) ==
    JoinTexts(<<" ">>, SubSeq(sent_chars[w], Run(w, r).start + 1, Run(w, r).end))

\* C11 (Empty input is a value, not an error): no call ends with an
\* exception; the chunk loop is never reached without a sentence; a call of
\* pdf_to_chunks whose reconstruction gave no paragraph ends with an empty
\* chunk list and never called the chunk builder; and a call that found no
\* sentence ends with an empty chunk list and no iteration of the loop.
EmptyInputIsValue ==
    \A w \in Workers :
        /\ pc[w] # "raised"
        /\ InChunkLoop(w) => sentences_with_page[w] # << >>
        /\ (Finished(w) /\ call[w].fn = "pdf_to_chunks" /\ page_paragraphs[w] = << >>)
            => /\ chunks[w] = << >>
               /\ paragraphs_with_page[w] = << >>
               /\ para_no[w] = 0
        /\ (Finished(w) /\ Chunking(w) /\ sentences_with_page[w] = << >>)
            => /\ chunks[w] = << >>
               /\ iters[w] = 0

\* Witness of C11: a direct call on MaxParas paragraphs, none with a
\* sentence, has ended with an empty chunk list.
EmptyInputIsValueWitness ==
    /\ Finished(1)
    /\ call[1].fn = "split_text_with_page"
    /\ Len(paragraphs_with_page[1]) = MaxParas
    /\ para_no[1] = MaxParas
    /\ \E k \in 1..MaxParas : paragraphs_with_page[1][k].text # << >>
    /\ sentences_with_page[1] = << >>
    /\ chunks[1] = << >>

\* C15 (Sentence and chunk text is never blank): every sentence kept from a
\* paragraph has a character that is not white space, and every emitted
\* chunk's content is the text of its sentences joined by spaces, which has
\* such a character too.
NeverBlank ==
    \A w \in Workers :
        /\ Len(sent_chars[w]) = Len(sentences_with_page[w])
        /\ \A k \in 1..Len(sentences_with_page[w]) :
            /\ sentences_with_page[w][k].text = Str(sent_chars[w][k])
            /\ StripOf(sent_chars[w][k], Whitespace) # << >>
            /\ StripOf(sent_chars[w][k], Whitespace) = sent_chars[w][k]
        /\ \A r \in 1..Len(chunks[w]) :
            /\ chunks[w][r].page_content = Str(RunChars(w, r))
            /\ StripOf(RunChars(w, r), Whitespace) # << >>

\* Witness of C15: a call whose first paragraph is white space only and
\* whose second paragraph has sentences has emitted chunks.
NeverBlankWitness ==
    /\ Finished(1)
    /\ Len(paragraphs_with_page[1]) = 2
    /\ paragraphs_with_page[1][1].text # << >>
    /\ StripOf(paragraphs_with_page[1][1].text, Whitespace) = << >>
    /\ Len(sentences_with_page[1]) = 2
    /\ chunks[1] # << >>

\* ------------------------------------------------ claims on the overlap

\* What sentences a..b-1 (0-based) of worker w's input accumulate, each
\* counting its length and one for the space.
RECURSIVE Accumulated(_, _, _)
Accumulated(w, a, b) ==
    IF a >= b THEN 0
    ELSE Len(Sent(w, a).text) + 1 + Accumulated(w, a + 1, b)

\* The start the overlap rule gives to the chunk after the one of sentences
\* [start, end): the largest j in start+1..end whose sentences j..end-1
\* accumulate at least overlap_size, start + 1 when there is none.
OverlapStart(w, start, end) ==
    LET enough == {j \in (start + 1)..end :
                        Accumulated(w, j, end) >= overlap_size[w]}
    IN IF enough = {} THEN start + 1
       ELSE CHOOSE j \in enough : \A k \in enough : k <= j

\* C26 as stated (Minimum overlap): for every two consecutive emitted
\* chunks the sentences the second repeats from the tail of the first
\* amount to at least overlap_size characters (each counted with its
\* separating space).
MinimumOverlap ==
    \A w \in Workers : \A r \in 1..(Emitted(w) - 1) :
        Accumulated(w, Run(w, r + 1).start, Run(w, r).end) >= overlap_size[w]

\* C30 (Overlap walk): the chunk emitted after the chunk of sentences
\* [start, i), i < total, starts where the overlap rule says; a chunk that
\* ends before the last sentence is followed by another once the call has
\* finished; and the sentence at which the next chunk is to start, once set,
\* is the one of the rule.
OverlapWalk ==
    \A w \in Workers :
        /\ \A r \in 1..(Emitted(w) - 1) :
              /\ Run(w, r).end < InputLen(w)
              /\ Run(w, r + 1).start = OverlapStart(w, Run(w, r).start, Run(w, r).end)
        /\ (Chunking(w) /\ Finished(w) /\ Emitted(w) > 0)
              => Run(w, Emitted(w)).end = InputLen(w)
        /\ (Chunking(w) /\ pc[w] = "loop" /\ Emitted(w) > 0)
              => /\ next_start[w] = OverlapStart(w, Run(w, Emitted(w)).start,
                                                 Run(w, Emitted(w)).end)
                 /\ i[w] = next_start[w]

\* Witness of C30: a chunk of three sentences was followed by one that
\* starts at its last sentence: the walk stopped before reaching the start
\* of the chunk.
OverlapWalkWitness ==
    \E r \in 1..(Emitted(1) - 1) :
        /\ Run(1, r).end = Run(1, r).start + 3
        /\ Run(1, r + 1).start = Run(1, r).end - 1
        /\ overlap_size[1] > 0

\* ------------------------------------------- claims on failed extraction

\* Worker w's call is pdf_to_chunks on the file that cannot be read.
OnBadFile(w) == call[w].fn = "pdf_to_chunks" /\ call[w].file_path = "bad.pdf"

\* C25 (Extraction failure surfaced, not retried): a call of pdf_to_chunks
\* on a file whose extraction raises never gets past the extraction: it has
\* no chunk, it never returns a list, and it ends with the exception; an
\* ended call stays ended, and the extraction of a call is entered from the
\* start of the call only, never again after it has begun.
ExtractionFailureSurfaced ==
    /\ [](\A w \in Workers :
            /\ OnBadFile(w) =>
                /\ pc[w] \in {"pdf", "extract", "page", "line", "raised"}
                /\ chunks[w] = << >>
                /\ \A k \in 1..Len(returned) : returned[k].worker # w
            /\ pc[w] = "raised" => OnBadFile(w))
    /\ [][\A w \in Workers :
            /\ pc[w] = "raised" => pc'[w] = "raised"
            /\ (pc'[w] = "extract" /\ pc[w] # "extract") => pc[w] = "pdf"
            /\ pc[w] \in {"page", "line"} => pc'[w] # "extract"]_vars

\* Witness of C25: the call on the bad file has read the paragraph of the
\* first page and ended with the exception, with no chunk.
ExtractionFailureSurfacedWitness ==
    /\ OnBadFile(1)
    /\ pc[1] = "raised"
    /\ page_paragraphs[1] # << >>
    /\ chunks[1] = << >>

\* ---------------------------------------- claims on the vector-store caches

\* The instances (by order of construction) made for a key of a module.
InstancesOf(store, key) ==
    {n \in 1..Len(instances) :
        instances[n] = [store |-> store, key |-> key]}

\* Thread w's last call of get_vectorstore has returned.
GotVectorstore(w) == vs_pc[w] = "idle" /\ vs_calls[w] > 0

\* C27 (Thread-safe lazy cache): for every module and key at most one
\* instance is ever constructed; every call that has returned returned that
\* instance, so calls with one key return the same instance and calls with
\* different keys different ones; a key once cached stays cached with its
\* instance, and the constructor runs only for a key that is not cached and
\* has no instance, so a call made when its key is cached constructs
\* nothing.
ThreadSafeCache ==
    /\ [](/\ \A store \in Stores : \A key \in CacheKeys(store) :
                Cardinality(InstancesOf(store, key)) <= 1
          /\ \A w \in Workers :
                GotVectorstore(w) =>
                    InstancesOf(vs_call[w].store, vs_call[w].key) = {vs_result[w]}
          /\ \A w \in Workers, v \in Workers :
                (GotVectorstore(w) /\ GotVectorstore(v))
                    => (vs_result[w] = vs_result[v] <=> vs_call[w] = vs_call[v]))
    /\ [][/\ \A store \in Stores : \A key \in DOMAIN vectorstore_cache[store] :
                /\ key \in DOMAIN vectorstore_cache'[store]
                /\ vectorstore_cache'[store][key] = vectorstore_cache[store][key]
          /\ Len(instances') > Len(instances) =>
                LET made == instances'[Len(instances')] IN
                    /\ made.key \notin DOMAIN vectorstore_cache[made.store]
                    /\ InstancesOf(made.store, made.key) = {}]_vars

\* Witness of C27: thread 2 holds the lock at the second test for a key
\* that thread 1 has cached in the meantime (both passed the first test),
\* and thread 1's call has returned the instance it constructed.
ThreadSafeCacheWitness ==
    /\ vs_pc[2] = "recheck"
    /\ vs_call[1] = vs_call[2]
    /\ vs_call[2].key \in DOMAIN vectorstore_cache[vs_call[2].store]
    /\ GotVectorstore(1)
    /\ vs_result[1] = vectorstore[1]
    /\ vs_result[1] = vectorstore_cache[vs_call[2].store][vs_call[2].key]

\* ----------------------------------------- claims on the connection pool

\* C28 as stated (Connection-pool singleton): every call of
\* get_connection_pool that returns, returns a pool whose open() succeeded
\* and on which monitoring was started; any other call ends with
\* ConnectionPoolError; so the call after one in which opening failed does
\* not return the unopened pool.
PoolSingleton ==
    \A k \in 1..Len(pool_results) :
        \/ pool_results[k].outcome = "ConnectionPoolError"
        \/ /\ pool_results[k].outcome = "returned"
           /\ pool_results[k].pool # NoPool
           /\ pool_opened[pool_results[k].pool]
           /\ pool_results[k].pool \in monitored

\* ------------------------------------------- claims on the chunk loop

\* C31 (Greedy packing): every emitted chunk that ends before the last
\* sentence is maximal: its content, a space and the sentence after it are
\* more than chunk_size characters.
GreedyPacking ==
    \A w \in Workers : \A r \in 1..Emitted(w) :
        Run(w, r).end < InputLen(w)
            => Len(chunks[w][r].page_content)
                    + Len(Sent(w, Run(w, r).end).text) + 1 > chunk_size[w]

\* Witness of C31: a chunk of two sentences fills chunk_size exactly and is
\* followed by a sentence left out of it.
GreedyPackingWitness ==
    \E r \in 1..Emitted(1) :
        /\ Run(1, r).end = Run(1, r).start + 2
        /\ Run(1, r).end < InputLen(1)
        /\ Len(chunks[1][r].page_content) = chunk_size[1]

\* C34 (The bounds check is never the exit): when the check of
\* next_start >= total has been passed, start < next_start <= end of the
\* chunk just emitted < total; the step of the check never ends the loop;
\* and the last chunk of a finished call ends with the last sentence.
BoundsCheckNeverExit ==
    /\ [](\A w \in Workers :
            /\ (Chunking(w) /\ pc[w] \in {"walk", "advance"}) => i[w] < total[w]
            /\ (Chunking(w) /\ pc[w] = "loop" /\ Emitted(w) > 0) =>
                /\ Run(w, Emitted(w)).start < next_start[w]
                /\ next_start[w] <= Run(w, Emitted(w)).end
                /\ Run(w, Emitted(w)).end < total[w]
            /\ (Chunking(w) /\ Finished(w) /\ Emitted(w) > 0) =>
                Run(w, Emitted(w)).end = InputLen(w))
    /\ [][\A w \in Workers :
            pc[w] = "advance" => pc'[w] \in {"advance", "loop"}]_vars

\* Witness of C34: the check is reached with the chunk just emitted ending
\* one sentence before the end and the walk having taken no step, so
\* next_start is as near to total as it gets.
BoundsCheckNeverExitWitness ==
    /\ pc[1] = "advance"
    /\ i[1] = total[1] - 1
    /\ overlap_start_idx[1] = i[1] - 1
    /\ Emitted(1) >= 2

\* C35 as stated (Every chunk adds new text): of two consecutive emitted
\* chunks the second ends at a later sentence than the first.
EveryChunkAddsText ==
    \A w \in Workers : \A r \in 1..(Emitted(w) - 1) :
        Run(w, r + 1).end > Run(w, r).end

\* C36 (No overlap when the budget is zero): with overlap_size <= 0 the
\* walk takes no step, the first chunk starts at sentence 0, every later
\* chunk starts where the one before it stopped, and the chunks of a
\* finished call end at the last sentence: every sentence is in exactly one
\* chunk.
ZeroBudgetPartition ==
    \A w \in Workers :
        (Chunking(w) /\ overlap_size[w] <= 0) =>
            /\ pc[w] \in {"walk", "advance"} =>
                    overlap_chars[w] = 0 /\ overlap_start_idx[w] = i[w] - 1
            /\ Emitted(w) > 0 => Run(w, 1).start = 0
            /\ \A r \in 1..(Emitted(w) - 1) : Run(w, r + 1).start = Run(w, r).end
            /\ (Finished(w) /\ InputLen(w) > 0) =>
                /\ Emitted(w) > 0
                /\ Run(w, Emitted(w)).end = InputLen(w)
                /\ \A k \in 0..(InputLen(w) - 1) :
                      Cardinality({r \in 1..Emitted(w) :
                            Run(w, r).start <= k /\ k < Run(w, r).end}) = 1

\* Witness of C36: a finished call with overlap_size = 0 cut four sentences
\* into three chunks.
ZeroBudgetPartitionWitness ==
    /\ Finished(1)
    /\ Chunking(1)
    /\ overlap_size[1] = 0
    /\ InputLen(1) = 4
    /\ Emitted(1) = 3

\* The pages of worker w's sentences never decrease.
SentencePagesOrdered(w) ==
    \A k \in 1..(InputLen(w) - 1) : Sent(w, k - 1).page <= Sent(w, k).page

\* C37 (Chunk pages are ordered): when the pages of the input never
\* decrease, the page tags of the emitted chunks never decrease in emission
\* order.
ChunkPagesOrdered ==
    \A w \in Workers :
        SentencePagesOrdered(w) =>
            \A r \in 1..(Emitted(w) - 1) :
                chunks[w][r].metadata.page <= chunks[w][r + 1].metadata.page

\* Witness of C37: two consecutive chunks that overlap, the first tagged
\* with page 0 and the second with page 1.
ChunkPagesOrderedWitness ==
    \E r \in 1..(Emitted(1) - 1) :
        /\ Run(1, r + 1).start < Run(1, r).end
        /\ chunks[1][r].metadata.page = 0
        /\ chunks[1][r + 1].metadata.page = 1

\* ----------------------------------------- claims on sentence provenance

\* The sentences (as characters, in the order of sentences_with_page) that
\* worker w's call derived from paragraph p (0-based).
SentencesFrom(w, p) ==
    LET from == SelectSeq([k \in 1..Len(sent_para[w]) |-> k],
                          LAMBDA k : sent_para[w][k] = p)
    IN [j \in 1..Len(from) |-> sent_chars[w][from[j]]]

\* C32 (Sentence provenance and order): every sentence fed to the chunk
\* builder comes from one paragraph; sentences follow the order of their
\* paragraphs; the sentences of a paragraph, run together in their order,
\* are the paragraph (white space apart); every sentence has the page of
\* its paragraph; so sentence pages never decrease when paragraph pages do
\* not.
SentenceProvenance ==
    \A w \in Workers :
        LET paras == paragraphs_with_page[w]
            sents == sentences_with_page[w]
        IN (Chunking(w) /\ paras # << >>) =>
            /\ Len(sent_para[w]) = Len(sents)
            /\ Len(sent_chars[w]) = Len(sents)
            /\ \A k \in 1..Len(sents) :
                /\ sent_para[w][k] \in 0..(para_no[w] - 1)
                /\ sents[k].text = Str(sent_chars[w][k])
                /\ sents[k].page = paras[sent_para[w][k] + 1].page
                /\ k > 1 => sent_para[w][k - 1] <= sent_para[w][k]
            /\ \A p \in 0..(para_no[w] - 1) :
                NoSpace(Flat(SentencesFrom(w, p))) = NoSpace(paras[p + 1].text)
            /\ (\A p \in 1..(Len(paras) - 1) : paras[p].page <= paras[p + 1].page)
                => \A k \in 1..(Len(sents) - 1) : sents[k].page <= sents[k + 1].page

\* Witness of C32: a finished call on two paragraphs of pages 0 and 1, the
\* second of which gave two sentences, has three sentences or more, the
\* first on page 0 and the last on page 1.
SentenceProvenanceWitness ==
    /\ Finished(1)
    /\ Chunking(1)
    /\ Len(paragraphs_with_page[1]) = 2
    /\ Len(SentencesFrom(1, 0)) >= 1
    /\ Len(SentencesFrom(1, 1)) = 2
    /\ sentences_with_page[1][Len(sentences_with_page[1])].page = 1
    /\ sentences_with_page[1][1].page = 0

\* ------------------------------------------ claims on the text kept

\* C38 (Segmentation loses no text): whatever the tag and the rule, the
\* sentences a call of sent_tokenize returns, run together in their order
\* with white space removed, are the text with white space removed.
SegmentationKeepsText ==
    \A w \in Workers :
        Tokenized(w) => NoSpace(Flat(tok_sents[w])) = NoSpace(tok_text[w])

\* Witness of C38: a text over the threshold that ends with a full stop, a
\* space and a lower-case letter came back as the two sentences of the
\* fallback, the space dropped.
SegmentationKeepsTextWitness ==
    /\ IsLatin(1)
    /\ Len(tok_text[1]) > FallbackThreshold
    /\ Len(tok_sents[1]) = 2
    /\ tok_sents[1][2] = <<"a">>
    /\ Len(Flat(tok_sents[1])) = Len(tok_text[1]) - 1

\* ------------------------------------------ claims on the batched hand-off

\* C33 (Batched hand-off): for max_batch_size >= 1 the batches passed to
\* the store are never empty and never longer than max_batch_size, all but
\* the last of a finished call hold exactly max_batch_size chunks, and run
\* together they are the chunks handed over so far, each once and in order:
\* all of them when the call has returned, none for an empty list.
BatchedHandOff ==
    batch_call.max_batch_size >= 1 =>
        LET size == batch_call.max_batch_size
            handed == Flat(added)
        IN /\ \A b \in 1..Len(added) :
                /\ Len(added[b]) >= 1
                /\ Len(added[b]) <= size
                /\ b < Len(added) => Len(added[b]) = size
           /\ Len(handed) <= Len(batch_call.chunks)
           /\ handed = SubSeq(batch_call.chunks, 1, Len(handed))
           /\ batch_pc = "done" => handed = batch_call.chunks
           /\ batch_call.chunks = << >> => added = << >>

\* Witness of C33: a returned call passed five chunks in batches of two:
\* two full batches and a last one of one chunk.
BatchedHandOffWitness ==
    /\ batch_pc = "done"
    /\ batch_call.max_batch_size = 2
    /\ Len(batch_call.chunks) = 5
    /\ Len(added) = 3
    /\ Len(added[3]) = 1
====
